---------------------------- MODULE Spec2Model ----------------------------
(***************************************************************************)
(* rusty-lox: the static resolver (src/src/resolver.rs), the environment   *)
(* chain (src/src/env.rs), the runtime values (src/src/syntax.rs,          *)
(* function.rs, class.rs, instance.rs), the tree-walking evaluator         *)
(* (src/src/interpreter/tree_walker.rs) and the driver `run` of            *)
(* src/src/main.rs.                                                        *)
(*                                                                         *)
(* Rc<RefCell<..>> objects are cells of a heap indexed by naturals: a      *)
(* reference is the index, cloning an Rc copies the index.  The resolved   *)
(* distance slot (Cell<Option<usize>>) of a Variable, Asign, This or Super *)
(* node is an entry of a table keyed by the node's id; an absent entry is  *)
(* None.  Tokens are their lexemes.  Numbers are exact rationals n/d       *)
(* (d = 0: the non-finite f64 values); rounding and the sign of zero are   *)
(* not represented.                                                        *)
(***************************************************************************)
EXTENDS Integers, Sequences, FiniteSets, TLC

VARIABLES
    statements,   \* main.rs:113  the parsed program, a sequence of statements
    phase,        \* where `run` is: "resolve", "interpret", "exit65", "exit70", "done"
    resolved,     \* number of top-level statements the resolver has visited
    executed,     \* number of top-level statements handed to interpret
    resolver,     \* main.rs:106  the Resolver
    interpreter,  \* main.rs:107  the TreeWalk evaluator and the heap it owns
    last,         \* result of the latest interpret call (value, error)
    input         \* what the program was built from

vars == <<statements, phase, resolved, executed, resolver, interpreter, last, input>>

EmptyMap == [x \in {} |-> 0]

Put(map, key, value) == (key :> value) @@ map

(***************************************************************************)
(* Values (syntax.rs:136-146).  One record shape for all variants:         *)
(* t the variant, n/d the number, s the string, b the bool, r the Rc.      *)
(***************************************************************************)
RECURSIVE Gcd(_, _)
Gcd(a, b) == IF b = 0 THEN a ELSE Gcd(b, a % b)

Abs(a) == IF a < 0 THEN -a ELSE a

Sign(a) == IF a < 0 THEN -1 ELSE IF a = 0 THEN 0 ELSE 1

MkValue(t, n, d, s, b, r) == [t |-> t, n |-> n, d |-> d, s |-> s, b |-> b, r |-> r]

\* a finite quotient in lowest terms, or inf / -inf / NaN when den = 0
Number(num, den) ==
    IF den = 0 THEN MkValue("Number", Sign(num), 0, "", FALSE, 0)
    ELSE LET g == Gcd(Abs(num), Abs(den))
             sg == Sign(den)
         IN  MkValue("Number", sg * (num \div g), sg * (den \div g), "", FALSE, 0)

Num(n) == Number(n, 1)
String(s) == MkValue("String", 0, 1, s, FALSE, 0)
Bool(b) == MkValue("Bool", 0, 1, "", b, 0)
Nil == MkValue("Nil", 0, 1, "", FALSE, 0)
FunctionV(r) == MkValue("Function", 0, 1, "", FALSE, r)
NativeFunctionV(r) == MkValue("NativeFunction", 0, 1, "", FALSE, r)
ClassV(r) == MkValue("Class", 0, 1, "", FALSE, r)
InstanceV(r) == MkValue("Instance", 0, 1, "", FALSE, r)

IsNaN(v) == v.d = 0 /\ v.n = 0

\* f64 arithmetic on the quotients (IEEE 754 for the non-finite operands)
f64_add(a, b) ==
    IF IsNaN(a) \/ IsNaN(b) THEN Number(0, 0)
    ELSE IF a.d = 0 /\ b.d = 0 THEN (IF a.n = b.n THEN a ELSE Number(0, 0))
    ELSE IF a.d = 0 THEN a
    ELSE IF b.d = 0 THEN b
    ELSE Number(a.n * b.d + b.n * a.d, a.d * b.d)

f64_neg(a) == Number(-a.n, a.d)

f64_sub(a, b) == f64_add(a, f64_neg(b))

f64_mul(a, b) ==
    IF IsNaN(a) \/ IsNaN(b) THEN Number(0, 0)
    ELSE IF a.d = 0 \/ b.d = 0 THEN Number(Sign(a.n) * Sign(b.n), 0)
    ELSE Number(a.n * b.n, a.d * b.d)

f64_div(a, b) ==
    IF IsNaN(a) \/ IsNaN(b) THEN Number(0, 0)
    ELSE IF a.d = 0 /\ b.d = 0 THEN Number(0, 0)
    ELSE IF a.d = 0 THEN Number(Sign(a.n) * (IF b.n < 0 THEN -1 ELSE 1), 0)
    ELSE IF b.d = 0 THEN Number(0, 1)
    ELSE IF b.n = 0 THEN Number(Sign(a.n), 0)
    ELSE Number(a.n * b.d, a.d * b.n)

f64_lt(a, b) ==
    IF IsNaN(a) \/ IsNaN(b) THEN FALSE
    ELSE IF a.d = 0 /\ b.d = 0 THEN a.n < b.n
    ELSE IF a.d = 0 THEN a.n < 0
    ELSE IF b.d = 0 THEN b.n > 0
    ELSE a.n * b.d < b.n * a.d

f64_eq(a, b) == ~IsNaN(a) /\ ~IsNaN(b) /\ a.n = b.n /\ a.d = b.d

(***************************************************************************)
(* The syntax tree (syntax.rs:13-134).  k is the variant; a node that      *)
(* carries a distance slot carries the id of its slot.                     *)
(***************************************************************************)
NoExpr == [k |-> "None"]
ELiteral(v) == [k |-> "Literal", value |-> v]
EVariable(id, name) == [k |-> "Variable", id |-> id, name |-> name]
EAsign(id, name, value) == [k |-> "Asign", id |-> id, name |-> name, value |-> value]
EBinary(left, operator, right) == [k |-> "Binary", left |-> left, operator |-> operator, right |-> right]
EUnary(operator, expr) == [k |-> "Unary", operator |-> operator, expr |-> expr]
EGrouping(expr) == [k |-> "Grouping", expr |-> expr]
ELogicalOr(left, right) == [k |-> "LogicalOr", left |-> left, right |-> right]
ELogicalAnd(left, right) == [k |-> "LogicalAnd", left |-> left, right |-> right]
ECall(callee, args) == [k |-> "Call", callee |-> callee, args |-> args]
EGet(object, name) == [k |-> "Get", object |-> object, name |-> name]
ESet(object, name, value) == [k |-> "Set", object |-> object, name |-> name, value |-> value]
EThis(id) == [k |-> "This", id |-> id, name |-> "this"]
ESuper(id, method) == [k |-> "Super", id |-> id, name |-> "super", method |-> method]

NoStmt == [k |-> "None"]
FunctionDecl(name, params, body) == [k |-> "FunDecl", name |-> name, params |-> params, body |-> body]
SVarDecl(name, initializer) == [k |-> "VarDecl", name |-> name, initializer |-> initializer]
SClassDecl(name, superclass, methods) == [k |-> "ClassDecl", name |-> name, superclass |-> superclass, methods |-> methods]
SPrint(expr) == [k |-> "Print", expr |-> expr]
SExpr(expr) == [k |-> "Expr", expr |-> expr]
SBlock(stmts) == [k |-> "Block", statements |-> stmts]
SIf(condition, if_branch, else_branch) == [k |-> "If", condition |-> condition, if_branch |-> if_branch, else_branch |-> else_branch]
SWhile(condition, body) == [k |-> "While", condition |-> condition, body |-> body]
SReturn(value) == [k |-> "Return", value |-> value]

\* a variant that opens a scope for the top level: globals become locals of
\* an outermost scope
Resolver_new_with_global_scope ==
    [scopes |-> << EmptyMap >>, current_scope |-> "Normal", current_class |-> "None",
     has_err |-> FALSE, height |-> EmptyMap, errors |-> <<>>, notes |-> <<>>]

(***************************************************************************)
(* The resolver (resolver.rs).  scopes is the stack of scope maps          *)
(* name -> defined?; height is the table of distance slots; errors is what *)
(* log::error_token printed; notes records, for each call of annotate, the *)
(* names each scope of the stack held at that moment.                      *)
(***************************************************************************)
Resolver_new ==
    [scopes |-> <<>>, current_scope |-> "Normal", current_class |-> "None",
     has_err |-> FALSE, height |-> EmptyMap, errors |-> <<>>, notes |-> <<>>]

\* A resolver is a finished record of these fields.  Definitions and arguments
\* are evaluated on demand; a step that tests its receiver this way starts
\* from a finished value, as a method called on `&mut self` does.
IsResolver(R) == DOMAIN R = DOMAIN Resolver_new

error_token(R, lexeme, err) ==
    [R EXCEPT !.errors = Append(@, [lexeme |-> lexeme, err |-> err])]

set_err(R, lexeme, err) == [error_token(R, lexeme, err) EXCEPT !.has_err = TRUE]

begin_scope(R) == [R EXCEPT !.scopes = Append(@, EmptyMap)]

end_scope(R) ==
    IF Len(R.scopes) = 0 THEN R
    ELSE [R EXCEPT !.scopes = SubSeq(@, 1, Len(@) - 1)]

\* scopes.last_mut().unwrap().insert(name, defined)
scope_insert(R, name, defined) ==
    [R EXCEPT !.scopes[Len(R.scopes)] = Put(@, name, defined)]

\* a variant that looks for the name in every open scope
declare_any_scope(R, name) ==
    IF Len(R.scopes) = 0 THEN R
    ELSE LET R1 == IF \E i \in 1..Len(R.scopes) : name \in DOMAIN R.scopes[i]
                   THEN set_err(R, name, "Already a variable with this name in this scope.")
                   ELSE R
         IN  scope_insert(R1, name, FALSE)

declare(R, name) ==
    IF Len(R.scopes) = 0 THEN R
    ELSE LET scope == R.scopes[Len(R.scopes)]
             R1 == IF name \in DOMAIN scope
                   THEN set_err(R, name, "Already a variable with this name in this scope.")
                   ELSE R
         IN  scope_insert(R1, name, FALSE)

define(R, name) ==
    IF Len(R.scopes) = 0 THEN R
    ELSE IF name \in DOMAIN R.scopes[Len(R.scopes)]
         THEN scope_insert(R, name, TRUE)
         ELSE R

\* a variant that enumerates before it reverses: the index counts from the
\* outermost scope
RECURSIVE find_scope_from_outermost(_, _, _)
find_scope_from_outermost(scopes, name, i) ==
    IF i = 0 THEN -1
    ELSE IF name \in DOMAIN scopes[i] THEN i - 1
    ELSE find_scope_from_outermost(scopes, name, i - 1)

\* scopes.iter().rev().enumerate().find(|(_, s)| s.contains_key(name)):
\* i counts down from the top of the stack, the index counts up from 0
RECURSIVE find_scope(_, _, _)
find_scope(scopes, name, i) ==
    IF i = 0 THEN -1
    ELSE IF name \in DOMAIN scopes[i] THEN Len(scopes) - i
    ELSE find_scope(scopes, name, i - 1)

Note(R, kind, id, name) ==
    [kind |-> kind, id |-> id, name |-> name,
     stack |-> [i \in 1..Len(R.scopes) |-> DOMAIN R.scopes[i]]]

annotate(R, kind, id, name) ==
    LET index == find_scope(R.scopes, name, Len(R.scopes))
        R1 == [R EXCEPT !.notes = Append(@, Note(R, kind, id, name))]
    IN  IF index >= 0 THEN [R1 EXCEPT !.height = Put(@, id, index)] ELSE R1


RECURSIVE resolve_stmt(_, _), resolve_expr(_, _), resolve_stmts(_, _), resolve_exprs(_, _)
RECURSIVE resolve_function(_, _, _, _), resolve_methods(_, _), resolve_class_decl(_, _)

\* for param in params { declare(param); define(param) }
RECURSIVE declare_params(_, _)
declare_params(R, params) ==
    IF Len(params) = 0 THEN R
    ELSE declare_params(define(declare(R, Head(params)), Head(params)), Tail(params))

resolve_stmts(R, stmts) ==
    IF Len(stmts) = 0 THEN R
    ELSE resolve_stmts(resolve_stmt(R, Head(stmts)), Tail(stmts))

resolve_exprs(R, exprs) ==
    IF Len(exprs) = 0 THEN R
    ELSE resolve_exprs(resolve_expr(R, Head(exprs)), Tail(exprs))

\* a variant that leaves the function context of the body in place
resolve_function_keeps_scope(R, params, stmts, scope_type) ==
    LET R1 == begin_scope([R EXCEPT !.current_scope = scope_type])
        R2 == declare_params(R1, params)
        R3 == resolve_stmts(R2, stmts)
    IN  end_scope(R3)

resolve_function(R, params, stmts, scope_type) ==
    LET old_scope == R.current_scope
        R1 == begin_scope([R EXCEPT !.current_scope = scope_type])
        R2 == declare_params(R1, params)
        R3 == resolve_stmts(R2, stmts)
    IN  [end_scope(R3) EXCEPT !.current_scope = old_scope]

resolve_methods(R, methods) ==
    IF Len(methods) = 0 THEN R
    ELSE LET m == Head(methods)
             method_scope == IF m.name = "init" THEN "Initializer" ELSE "Method"
         IN  resolve_methods(resolve_function(R, m.params, m.body, method_scope), Tail(methods))

\* a variant that leaves the class context of the declaration in place
resolve_class_decl_keeps_class(R, stmt) ==
    LET R1 == define(declare([R EXCEPT !.current_class = "Class"], stmt.name), stmt.name)
        has_super == stmt.superclass.k = "Variable"
        R2 == IF has_super /\ stmt.superclass.name = stmt.name
              THEN set_err(R1, stmt.superclass.name, "A class can't inherit from itself.")
              ELSE R1
        R3 == IF has_super
              THEN scope_insert(
                       begin_scope(resolve_expr([R2 EXCEPT !.current_class = "Subclass"],
                                                stmt.superclass)),
                       "super", TRUE)
              ELSE R2
        R4 == scope_insert(begin_scope(R3), "this", TRUE)
        R5 == resolve_methods(R4, stmt.methods)
        R6 == end_scope(R5)
        R7 == IF stmt.superclass.k # "None" THEN end_scope(R6) ELSE R6
    IN  R7

resolve_class_decl(R, stmt) ==
    LET previos_class == R.current_class
        R1 == define(declare([R EXCEPT !.current_class = "Class"], stmt.name), stmt.name)
        has_super == stmt.superclass.k = "Variable"
        R2 == IF has_super /\ stmt.superclass.name = stmt.name
              THEN set_err(R1, stmt.superclass.name, "A class can't inherit from itself.")
              ELSE R1
        R3 == IF has_super
              THEN scope_insert(
                       begin_scope(resolve_expr([R2 EXCEPT !.current_class = "Subclass"],
                                                stmt.superclass)),
                       "super", TRUE)
              ELSE R2
        R4 == scope_insert(begin_scope(R3), "this", TRUE)
        R5 == resolve_methods(R4, stmt.methods)
        R6 == end_scope(R5)
        R7 == IF stmt.superclass.k # "None" THEN end_scope(R6) ELSE R6
    IN  [R7 EXCEPT !.current_class = previos_class]

\* a variant that marks the name defined before it resolves the initializer
resolve_var_decl_defines_first(R, stmt) ==
    LET R1 == define(declare(R, stmt.name), stmt.name)
    IN  IF stmt.initializer.k # "None" THEN resolve_expr(R1, stmt.initializer) ELSE R1

resolve_var_decl(R, stmt) ==
    LET R1 == declare(R, stmt.name)
        R2 == IF stmt.initializer.k # "None" THEN resolve_expr(R1, stmt.initializer) ELSE R1
    IN  define(R2, stmt.name)

\* a variant that resolves the statements of a block in the scope around it
resolve_block_stmt_without_scope(R, stmt) == resolve_stmts(R, stmt.statements)

resolve_block_stmt(R, stmt) == end_scope(resolve_stmts(begin_scope(R), stmt.statements))

resolve_if_stmt(R, stmt) ==
    LET R1 == resolve_stmt(resolve_expr(R, stmt.condition), stmt.if_branch)
    IN  IF stmt.else_branch.k # "None" THEN resolve_stmt(R1, stmt.else_branch) ELSE R1

resolve_while_stmt(R, stmt) == resolve_stmt(resolve_expr(R, stmt.condition), stmt.body)

resolve_fun_decl(R, stmt) ==
    resolve_function(define(declare(R, stmt.name), stmt.name), stmt.params, stmt.body, "Function")

resolve_return_stmt(R, stmt) ==
    LET R1 == IF R.current_scope = "Normal"
              THEN set_err(R, "return", "Can't return from top-level code.")
              ELSE R
    IN  IF stmt.value.k = "None" THEN R1
        ELSE resolve_expr(
                 IF R1.current_scope = "Initializer"
                 THEN set_err(R1, "return", "Can't return a value from an initializer.")
                 ELSE R1,
                 stmt.value)

resolve_stmt(R, stmt) ==
    CASE ~IsResolver(R) -> R
      [] stmt.k = "VarDecl" -> resolve_var_decl(R, stmt)
      [] stmt.k = "Print" -> resolve_expr(R, stmt.expr)
      [] stmt.k = "Block" -> resolve_block_stmt(R, stmt)
      [] stmt.k = "Expr" -> resolve_expr(R, stmt.expr)
      [] stmt.k = "If" -> resolve_if_stmt(R, stmt)
      [] stmt.k = "While" -> resolve_while_stmt(R, stmt)
      [] stmt.k = "FunDecl" -> resolve_fun_decl(R, stmt)
      [] stmt.k = "Return" -> resolve_return_stmt(R, stmt)
      [] stmt.k = "ClassDecl" -> resolve_class_decl(R, stmt)

\* scopes.last().map(|s| s.get(name) == Some(&false)).unwrap_or(false)
declared_not_defined(R, name) ==
    /\ Len(R.scopes) > 0
    /\ name \in DOMAIN R.scopes[Len(R.scopes)]
    /\ R.scopes[Len(R.scopes)][name] = FALSE

resolve_expr(R, expr) ==
    CASE ~IsResolver(R) -> R
      [] expr.k = "Variable" ->
           annotate(IF declared_not_defined(R, expr.name)
                    THEN set_err(R, expr.name, "Can't read local variable in its own initializer.")
                    ELSE R,
                    "Variable", expr.id, expr.name)
      [] expr.k = "Asign" -> annotate(resolve_expr(R, expr.value), "Asign", expr.id, expr.name)
      [] expr.k \in {"Unary", "Grouping"} -> resolve_expr(R, expr.expr)
      [] expr.k \in {"LogicalOr", "LogicalAnd", "Binary"} ->
           resolve_expr(resolve_expr(R, expr.left), expr.right)
      [] expr.k = "Call" -> resolve_exprs(resolve_expr(R, expr.callee), expr.args)
      [] expr.k = "Get" -> resolve_expr(R, expr.object)
      [] expr.k = "Set" -> resolve_expr(resolve_expr(R, expr.value), expr.object)
      [] expr.k = "This" ->
           (IF R.current_class = "None"
            THEN set_err(R, "this", "Can't use 'this' outside of a class.")
            ELSE annotate(R, "This", expr.id, "this"))
      [] expr.k = "Super" ->
           (CASE R.current_class = "None" ->
                   set_err(R, "super", "Can't use 'super' outside of a class.")
              [] R.current_class = "Class" ->
                   set_err(R, "super", "Can't use 'super' in a class with no superclass.")
              [] R.current_class = "Subclass" -> annotate(R, "Super", expr.id, "super"))
      [] expr.k = "Literal" -> R

(***************************************************************************)
(* The evaluator's state: TreeWalk (tree_walker.rs:15-18) and the heap of  *)
(* the Rc objects reachable from it.                                       *)
(*   envs       Environment frames [values, enclosing] (0: no enclosing)   *)
(*   functions  Function objects [name, params, body, closure]             *)
(*   natives    NativeFunction objects [name, arity]                       *)
(*   classes    Class objects [name, methods, superclass] (0: none)        *)
(*   instances  Instance objects [class, fields]                           *)
(*   globals, environment  the two frame references of TreeWalk            *)
(*   height     the distance slots of the tree being interpreted           *)
(*   out        the lines printed to standard output                       *)
(*   calls, sets  for each Function::call and each Instance::set so far,   *)
(*              what it was applied to                                     *)
(*   blocks     for each eval_block_stmt that returned, the frame that was *)
(*              current when it was entered and when it returned           *)
(*   assigns    for each assignment to a variable, the frames before and   *)
(*              after it                                                   *)
(*   lookups    for each evaluation of a variable, this or super node      *)
(*              whose slot holds a distance, whether the frame at that     *)
(*              distance gave what the evaluator asks of it                *)
(*   borrows    the RefCells that are mutably borrowed now, as pairs of    *)
(*              "frame" or "instance" and the index of the object          *)
(*   borrowed   for each borrow_mut() so far, the RefCell it borrowed and  *)
(*              the RefCells that were mutably borrowed when it did        *)
(*   fuel       calls and loop iterations left before the host gives up    *)
(***************************************************************************)
MaxFuel == 40

None == [some |-> FALSE, value |-> Nil]
Some(v) == [some |-> TRUE, value |-> v]

NoError == [kind |-> "None", lexeme |-> "", expected |-> 0, actual |-> 0]
RuntimeError(kind, lexeme) == [kind |-> kind, lexeme |-> lexeme, expected |-> 0, actual |-> 0]
Ok(S, v) == [S |-> S, value |-> v, error |-> NoError]
Err(S, kind, lexeme) == [S |-> S, value |-> Nil, error |-> RuntimeError(kind, lexeme)]
IsOk(r) == r.error.kind = "None"

\* Environment::boxed_with_enclosing (env.rs:30-35); the new frame is Len(envs)
boxed_with_enclosing(S, enclosing) ==
    [S EXCEPT !.envs = Append(@, [values |-> EmptyMap, enclosing |-> enclosing])]

\* RefCell::borrow_mut() as the callers of define, assign, assign_at and set use it
\* (tree_walker.rs:83, 121, 127, 218-219, 250; function.rs:83, 104): the borrow
\* ends with the statement that takes it
borrow_mut(S, cell, held) ==
    [S EXCEPT !.borrowed = Append(@, [cell |-> cell, held |-> held])]

\* the borrows of assign_at and assign (env.rs:70-92), which borrow the enclosing
\* frame while the frame they were called on is borrowed
RECURSIVE borrow_chain(_, _, _, _)
borrow_chain(S, env, h, held) ==
    IF env = 0 THEN S
    ELSE IF h = 0 THEN borrow_mut(S, << "frame", env >>, held)
    ELSE borrow_chain(borrow_mut(S, << "frame", env >>, held), S.envs[env].enclosing, h - 1,
                      held \cup {<< "frame", env >>})

\* Environment::define (env.rs:66-68)
Environment_define(S, env, name, value) ==
    [borrow_mut(S, << "frame", env >>, S.borrows)
       EXCEPT !.envs[env].values = Put(@, name, value)]

\* Environment::get (env.rs:49-57)
RECURSIVE Environment_get(_, _, _)
Environment_get(S, env, name) ==
    IF name \in DOMAIN S.envs[env].values THEN Some(S.envs[env].values[name])
    ELSE IF S.envs[env].enclosing # 0 THEN Environment_get(S, S.envs[env].enclosing, name)
    ELSE None

\* Environment::get_at (env.rs:59-64)
RECURSIVE Environment_get_at(_, _, _, _)
Environment_get_at(S, env, name, h) ==
    IF h = 0
    THEN (IF name \in DOMAIN S.envs[env].values THEN Some(S.envs[env].values[name]) ELSE None)
    ELSE IF S.envs[env].enclosing # 0
         THEN Environment_get_at(S, S.envs[env].enclosing, name, h - 1)
         ELSE None

\* a variant that binds the name in the outermost frame when no frame binds it
RECURSIVE Environment_assign_declares(_, _, _, _)
Environment_assign_declares(S, env, name, value) ==
    IF name \in DOMAIN S.envs[env].values
    THEN Ok([S EXCEPT !.envs[env].values[name] = value], Nil)
    ELSE IF S.envs[env].enclosing # 0
         THEN Environment_assign_declares(S, S.envs[env].enclosing, name, value)
         ELSE Ok([S EXCEPT !.envs[env].values = Put(@, name, value)], Nil)

\* Environment::assign (env.rs:70-81)
RECURSIVE Environment_assign(_, _, _, _)
Environment_assign(S, env, name, value) ==
    IF name \in DOMAIN S.envs[env].values
    THEN Ok([S EXCEPT !.envs[env].values[name] = value], Nil)
    ELSE IF S.envs[env].enclosing # 0
         THEN Environment_assign(S, S.envs[env].enclosing, name, value)
         ELSE Err(S, "UndefinedVariable", name)

\* a variant that writes to the nearest frame that binds the name
RECURSIVE Environment_assign_at_by_name(_, _, _, _, _)
Environment_assign_at_by_name(S, env, name, value, h) ==
    IF name \in DOMAIN S.envs[env].values THEN [S EXCEPT !.envs[env].values[name] = value]
    ELSE IF S.envs[env].enclosing # 0
         THEN Environment_assign_at_by_name(S, S.envs[env].enclosing, name, value, h)
         ELSE S

\* Environment::assign_at (env.rs:83-92)
RECURSIVE Environment_assign_at(_, _, _, _, _)
Environment_assign_at(S, env, name, value, h) ==
    IF h = 0 THEN [S EXCEPT !.envs[env].values = Put(@, name, value)]
    ELSE IF S.envs[env].enclosing # 0
         THEN Environment_assign_at(S, S.envs[env].enclosing, name, value, h - 1)
         ELSE S

\* TreeWalk::new (tree_walker.rs:21-30), NativeFunction::clock (function.rs:147-149)
TreeWalk_new ==
    [envs |-> <<[values |-> Put(EmptyMap, "clock", NativeFunctionV(1)), enclosing |-> 0]>>,
     functions |-> <<>>,
     natives |-> <<[name |-> "clock", arity |-> 0]>>,
     classes |-> <<>>,
     instances |-> <<>>,
     globals |-> 1,
     environment |-> 1,
     height |-> EmptyMap,
     out |-> <<>>,
     calls |-> <<>>,
     sets |-> <<>>,
     blocks |-> <<>>,
     assigns |-> <<>>,
     lookups |-> <<>>,
     borrows |-> {},
     borrowed |-> <<>>,
     fuel |-> MaxFuel]

\* height.get() of the node with this id
height_get(S, id) == IF id \in DOMAIN S.height THEN Some(S.height[id]) ELSE None

\* a variant in which the number 0 and the empty string are falsy too
is_true_zero_falsy(value) ==
    CASE value.t = "Bool" -> value.b
      [] value.t = "Nil" -> FALSE
      [] value.t = "Number" -> value.n # 0
      [] value.t = "String" -> value.s # ""
      [] OTHER -> TRUE

\* is_true (tree_walker.rs:364-370)
is_true(value) ==
    CASE value.t = "Bool" -> value.b
      [] value.t = "Nil" -> FALSE
      [] OTHER -> TRUE

\* Function::new (function.rs:69-78): the initializer flag the evaluator passes
\* (tree_walker.rs:98-99, 126) has no field to go to
Function_new(S, decl, env, is_init) ==
    [S EXCEPT !.functions = Append(@, [name |-> decl.name, params |-> decl.params,
                                       body |-> decl.body, closure |-> env])]

\* Function::arity (function.rs:113-115)
Function_arity(S, f) == Len(S.functions[f].params)

\* a variant that defines `this` in the closure of the method itself
Function_bind_in_closure(S, f, instance) ==
    LET S2 == Environment_define(S, S.functions[f].closure, "this", InstanceV(instance))
    IN  [S2 EXCEPT !.functions = Append(@, S.functions[f])]

\* Function::bind (function.rs:80-91); the bound function is Len(functions)
Function_bind(S, f, instance) ==
    LET S1 == boxed_with_enclosing(S, S.functions[f].closure)
        binded_env == Len(S1.envs)
        S2 == Environment_define(S1, binded_env, "this", InstanceV(instance))
    IN  [S2 EXCEPT !.functions = Append(@, [S.functions[f] EXCEPT !.closure = binded_env])]

\* a variant that asks the superclass before the class's own table
RECURSIVE Class_method_superclass_first(_, _, _)
Class_method_superclass_first(S, class, name) ==
    LET inherited == IF S.classes[class].superclass # 0
                     THEN Class_method_superclass_first(S, S.classes[class].superclass, name)
                     ELSE 0
    IN  IF inherited # 0 THEN inherited
        ELSE IF name \in DOMAIN S.classes[class].methods THEN S.classes[class].methods[name]
        ELSE 0

\* Class::method (class.rs:39-44): the function found, or 0
RECURSIVE Class_method(_, _, _)
Class_method(S, class, name) ==
    IF name \in DOMAIN S.classes[class].methods THEN S.classes[class].methods[name]
    ELSE IF S.classes[class].superclass # 0
         THEN Class_method(S, S.classes[class].superclass, name)
         ELSE 0

\* Class::arity (class.rs:33-35)
Class_arity(S, class) ==
    LET init == Class_method(S, class, "init")
    IN  IF init # 0 THEN Function_arity(S, init) ELSE 0

\* Instance::boxed (instance.rs:18-24); the new instance is Len(instances)
Instance_boxed(S, class) ==
    [S EXCEPT !.instances = Append(@, [class |-> class, fields |-> EmptyMap])]

\* Instance::set (instance.rs:38-40)
Instance_set(S, instance, name, value) ==
    [borrow_mut(S, << "instance", instance >>, S.borrows)
       EXCEPT !.instances[instance].fields = Put(@, name, value),
              !.sets = Append(@, [instance |-> instance, name |-> name, value |-> value,
                                  before |-> S.instances])]

\* a variant that looks for a method before it looks for a field
Instance_get_method_first(S, this, name) ==
    LET method == Class_method(S, S.instances[this].class, name)
        S1 == Function_bind(S, method, this)
    IN  IF method # 0 THEN Ok(S1, FunctionV(Len(S1.functions)))
        ELSE IF name \in DOMAIN S.instances[this].fields
        THEN Ok(S, S.instances[this].fields[name])
        ELSE Err(S, "UndefinedProperty", name)

\* Instance::get (instance.rs:28-36)
Instance_get(S, this, name) ==
    IF << "instance", this >> \in S.borrows
    THEN Err(S, "panic", "already mutably borrowed: BorrowError")
    ELSE IF name \in DOMAIN S.instances[this].fields
    THEN Ok(S, S.instances[this].fields[name])
    ELSE LET method == Class_method(S, S.instances[this].class, name)
             S1 == Function_bind(S, method, this)
         IN  IF method # 0 THEN Ok(S1, FunctionV(Len(S1.functions)))
             ELSE Err(S, "UndefinedProperty", name)

(***************************************************************************)
(* Display for Value (syntax.rs:179-192) and what it delegates to.         *)
(***************************************************************************)
FractionDigits == 6

Digit(i) == SubSeq("0123456789", i + 1, i + 1)

RECURSIVE NatToString(_)
NatToString(n) == IF n < 10 THEN Digit(n) ELSE NatToString(n \div 10) \o Digit(n % 10)

\* the digits of rem/den after the decimal point, by long division
RECURSIVE FractionToString(_, _, _)
FractionToString(rem, den, left) ==
    IF rem = 0 \/ left = 0 THEN ""
    ELSE Digit((rem * 10) \div den) \o FractionToString((rem * 10) % den, den, left - 1)

f64_to_string(v) ==
    IF v.d = 0 THEN (IF v.n = 0 THEN "NaN" ELSE IF v.n > 0 THEN "inf" ELSE "-inf")
    ELSE LET a == Abs(v.n)
             whole == NatToString(a \div v.d)
             frac == FractionToString(a % v.d, v.d, FractionDigits)
         IN  (IF v.n < 0 THEN "-" ELSE "") \o whole \o (IF frac = "" THEN "" ELSE "." \o frac)

Display(S, value) ==
    CASE value.t = "Number" -> f64_to_string(value)
      [] value.t = "String" -> value.s
      [] value.t = "Bool" -> (IF value.b THEN "true" ELSE "false")
      [] value.t = "Nil" -> "nil"
      [] value.t = "Class" -> S.classes[value.r].name
      [] value.t = "Instance" -> S.classes[S.instances[value.r].class].name \o " instance"
      [] value.t = "Function" -> "<fn " \o S.functions[value.r].name \o ">"
      [] value.t = "NativeFunction" -> "<native fn>"

\* a variant that compares what the two values display as
Value_eq_coercing(S, l, r) == Display(S, l) = Display(S, r)

\* a variant that compares the reference kinds by identity
Value_eq_by_identity(S, l, r) ==
    /\ l.t = r.t
    /\ CASE l.t = "Number" -> f64_eq(l, r)
         [] l.t = "String" -> l.s = r.s
         [] l.t = "Bool" -> l.b = r.b
         [] l.t = "Nil" -> TRUE
         [] l.t \in {"Class", "Function", "NativeFunction", "Instance"} -> l.r = r.r

\* PartialEq for Value (syntax.rs:136), Class (class.rs:53-57), Function
\* (function.rs:118-122), NativeFunction (function.rs:152-156), Instance
\* (instance.rs:49-53)
Value_eq(S, l, r) ==
    /\ l.t = r.t
    /\ CASE l.t = "Number" -> f64_eq(l, r)
         [] l.t = "String" -> l.s = r.s
         [] l.t = "Bool" -> l.b = r.b
         [] l.t = "Nil" -> TRUE
         [] l.t = "Class" -> S.classes[l.r].name = S.classes[r.r].name
         [] l.t = "Function" -> S.functions[l.r].name = S.functions[r.r].name
         [] l.t = "NativeFunction" -> S.natives[l.r].name = S.natives[r.r].name
         [] l.t = "Instance" ->
              S.classes[S.instances[l.r].class].name = S.classes[S.instances[r.r].class].name

(***************************************************************************)
(* The evaluator (tree_walker.rs).  Every operator returns                 *)
(* [S, value, error]: the state after it, and Ok(value) or Err(error); the *)
(* Return signal is the error of kind "Return" and carries its value.      *)
(***************************************************************************)
RECURSIVE eval_stmt(_, _), eval_expr(_, _), eval_block_stmt(_, _, _), exec_stmts(_, _)
RECURSIVE eval_while_stmt(_, _), eval_args(_, _, _), Function_call(_, _, _)

\* the `?` operator: on Ok continue with the state and the value, on Err return it
Try(result, Continue(_, _)) ==
    IF IsOk(result) THEN Continue(result.S, result.value) ELSE result

\* `match` on a Result
Match(result, Arms(_)) == Arms(result)

\* a variant that looks an unresolved name up along the chain of the current frame
lookup_var_from_current(S, name, height) ==
    IF height.some THEN Environment_get_at(S, S.environment, name, height.value)
    ELSE Environment_get(S, S.environment, name)

\* lookup_var (tree_walker.rs:356-361)
lookup_var(S, name, height) ==
    IF height.some THEN Environment_get_at(S, S.environment, name, height.value)
    ELSE Environment_get(S, S.globals, name)

\* for param in &self.params { environment.define(param, args.next().unwrap()) }
RECURSIVE define_params(_, _, _, _)
define_params(S, env, params, args) ==
    IF Len(params) = 0 THEN S
    ELSE define_params(Environment_define(S, env, Head(params), Head(args)),
                       env, Tail(params), Tail(args))

\* a variant whose new frame is a child of the caller's current frame
Function_call_in_caller_frame(S, f, args) ==
    IF S.fuel = 0 THEN Err(S, "StackExhausted", S.functions[f].name)
    ELSE LET S1 == boxed_with_enclosing([S EXCEPT !.fuel = @ - 1], S.environment)
             environment == Len(S.envs) + 1
             S2 == [define_params(S1, environment, S.functions[f].params, args)
                      EXCEPT !.calls = Append(@, [function |-> f, frame |-> environment,
                                                  caller |-> S.environment,
                                                  args |-> args])]
         IN  Match(eval_block_stmt(S2, S.functions[f].body, environment),
                   LAMBDA block : IF IsOk(block) THEN Ok(block.S, Nil)
                                  ELSE IF block.error.kind = "Return" THEN Ok(block.S, block.value)
                                  ELSE block)

\* a variant that lets the Return signal through to its caller
Function_call_return_escapes(S, f, args) ==
    IF S.fuel = 0 THEN Err(S, "StackExhausted", S.functions[f].name)
    ELSE LET S1 == boxed_with_enclosing([S EXCEPT !.fuel = @ - 1], S.functions[f].closure)
             environment == Len(S.envs) + 1
             S2 == [define_params(S1, environment, S.functions[f].params, args)
                      EXCEPT !.calls = Append(@, [function |-> f, frame |-> environment,
                                                  caller |-> S.environment,
                                                  args |-> args])]
         IN  Match(eval_block_stmt(S2, S.functions[f].body, environment),
                   LAMBDA block : IF IsOk(block) THEN Ok(block.S, Nil) ELSE block)

\* Function::call (function.rs:99-111)
Function_call(S, f, args) ==
    IF S.fuel = 0 THEN Err(S, "StackExhausted", S.functions[f].name)
    ELSE LET S1 == boxed_with_enclosing([S EXCEPT !.fuel = @ - 1], S.functions[f].closure)
             environment == Len(S.envs) + 1
             S2 == [define_params(S1, environment, S.functions[f].params, args)
                      EXCEPT !.calls = Append(@, [function |-> f, frame |-> environment,
                                                  caller |-> S.environment,
                                                  args |-> args])]
         IN  Match(eval_block_stmt(S2, S.functions[f].body, environment),
                   LAMBDA block : IF IsOk(block) THEN Ok(block.S, Nil)
                                  ELSE IF block.error.kind = "Return" THEN Ok(block.S, block.value)
                                  ELSE block)

\* NativeFunction::call (function.rs:164-166), clock (function.rs:179-184)
NativeFunction_call(S, native, args) == Ok(S, Num(0))

\* a variant whose value is what the initializer returned
Class_init_returns_result(S, class, args) ==
    LET S1 == Instance_boxed(S, class)
        instance == Len(S.instances) + 1
        initializer == Class_method(S, class, "init")
        S2 == Function_bind(S1, initializer, instance)
    IN  IF initializer = 0 THEN Ok(S1, InstanceV(instance))
        ELSE Function_call(S2, Len(S2.functions), args)

\* Class::init (class.rs:25-31)
Class_init(S, class, args) ==
    LET S1 == Instance_boxed(S, class)
        instance == Len(S.instances) + 1
        initializer == Class_method(S, class, "init")
        S2 == Function_bind(S1, initializer, instance)
    IN  IF initializer = 0 THEN Ok(S1, InstanceV(instance))
        ELSE Try(Function_call(S2, Len(S2.functions), args),
                 LAMBDA S3, returned : Ok(S3, InstanceV(instance)))

\* the statements of a block in order, up to the first Err
exec_stmts(S, stmts) ==
    IF Len(stmts) = 0 THEN Ok(S, Nil)
    ELSE Try(eval_stmt(S, Head(stmts)), LAMBDA S1, unit : exec_stmts(S1, Tail(stmts)))

\* the return of eval_block_stmt (tree_walker.rs:151-158), as the log sees it
leave_block(old_env, env, r) ==
    [r EXCEPT !.S.blocks = Append(@, [entered |-> old_env, frame |-> env,
                                      outcome |-> r.error.kind,
                                      left |-> r.S.environment])]

\* a variant that restores the frame only when the block completes
eval_block_stmt_keeps_frame_on_err(S, stmts, env) ==
    Match(exec_stmts([S EXCEPT !.environment = env], stmts),
          LAMBDA r : leave_block(S.environment, env,
                                 IF IsOk(r) THEN [r EXCEPT !.S.environment = S.environment]
                                 ELSE r))

\* eval_block_stmt (tree_walker.rs:145-159)
eval_block_stmt(S, stmts, env) ==
    Match(exec_stmts([S EXCEPT !.environment = env], stmts),
          LAMBDA r : leave_block(S.environment, env,
                                 [r EXCEPT !.S.environment = S.environment]))

\* the methods of a class declaration, collected into the method table
RECURSIVE build_methods(_, _, _)
build_methods(S, decls, methods) ==
    IF Len(decls) = 0 THEN [S |-> S, methods |-> methods]
    ELSE LET decl == Head(decls)
             S1 == Function_new(S, decl, S.environment, decl.name = "init")
         IN  build_methods(S1, Tail(decls), Put(methods, decl.name, Len(S.functions) + 1))

\* a variant in which a class refers to its superclass by name, so that declaring
\* a class makes it the superclass of the classes declared over that name
Class_new_rebinds_by_name(S, name, methods, superclass) ==
    LET new == Len(S.classes) + 1
        rebound == [c \in DOMAIN S.classes |->
                       IF S.classes[c].superclass # 0
                          /\ S.classes[S.classes[c].superclass].name = name
                       THEN [S.classes[c] EXCEPT !.superclass = new]
                       ELSE S.classes[c]]
    IN  [S EXCEPT !.classes = Append(rebound, [name |-> name, methods |-> methods,
                                               superclass |-> superclass])]

\* Class::new (class.rs:19-23); the new class is Len(classes)
Class_new(S, name, methods, superclass) ==
    [S EXCEPT !.classes = Append(@, [name |-> name, methods |-> methods,
                                     superclass |-> superclass])]

\* eval_class_decl (tree_walker.rs:83-112), once the superclass (0: none) is known
define_class(S, stmt, superclass) ==
    LET original == S.environment
        S1 == Environment_define(S, original, stmt.name, Nil)
        super_env == Len(S.envs) + 1
        S2 == IF superclass # 0
              THEN Environment_define(
                       [boxed_with_enclosing(S1, original) EXCEPT !.environment = super_env],
                       super_env, "super", ClassV(superclass))
              ELSE S1
        built == build_methods(S2, stmt.methods, EmptyMap)
        class == Len(S.classes) + 1
        S3 == [Class_new(built.S, stmt.name, built.methods, superclass)
                 EXCEPT !.environment = IF superclass # 0 THEN S2.envs[super_env].enclosing
                                        ELSE original]
    IN  Environment_assign(S3, S3.environment, stmt.name, ClassV(class))

\* a variant that defines the name as Nil before it evaluates the superclass
eval_class_decl_predefines(S, stmt) ==
    IF stmt.superclass.k = "None" THEN define_class(S, stmt, 0)
    ELSE Try(eval_expr(Environment_define(S, S.environment, stmt.name, Nil), stmt.superclass),
             LAMBDA S1, sup : IF sup.t = "Class" THEN define_class(S1, stmt, sup.r)
                              ELSE Err(S1, "SuperclassMustBeAClass", stmt.superclass.name))

\* eval_class_decl (tree_walker.rs:71-113)
eval_class_decl(S, stmt) ==
    IF stmt.superclass.k = "None" THEN define_class(S, stmt, 0)
    ELSE Try(eval_expr(S, stmt.superclass),
             LAMBDA S1, sup : IF sup.t = "Class" THEN define_class(S1, stmt, sup.r)
                              ELSE Err(S1, "SuperclassMustBeAClass", stmt.superclass.name))

\* eval_var_decl (tree_walker.rs:115-123)
eval_var_decl(S, stmt) ==
    Try(IF stmt.initializer.k # "None" THEN eval_expr(S, stmt.initializer) ELSE Ok(S, Nil),
        LAMBDA S1, value : Ok(Environment_define(S1, S1.environment, stmt.name, value), Nil))

\* eval_fun_decl (tree_walker.rs:125-129)
eval_fun_decl(S, stmt) ==
    LET S1 == Function_new(S, stmt, S.environment, FALSE)
    IN  Ok(Environment_define(S1, S.environment, stmt.name, FunctionV(Len(S.functions) + 1)), Nil)

\* eval_print_stmt (tree_walker.rs:131-135)
eval_print_stmt(S, stmt) ==
    Try(eval_expr(S, stmt.expr),
        LAMBDA S1, value : Ok([S1 EXCEPT !.out = Append(@, Display(S1, value))], Nil))

\* eval_return_stmt (tree_walker.rs:137-143)
eval_return_stmt(S, stmt) ==
    Try(IF stmt.value.k # "None" THEN eval_expr(S, stmt.value) ELSE Ok(S, Nil),
        LAMBDA S1, value : [S |-> S1, value |-> value, error |-> RuntimeError("Return", "")])

\* eval_expr_stmt (tree_walker.rs:161-164)
eval_expr_stmt(S, stmt) ==
    Try(eval_expr(S, stmt.expr), LAMBDA S1, value : Ok(S1, Nil))

\* eval_if_stmt (tree_walker.rs:166-174)
eval_if_stmt(S, stmt) ==
    Try(eval_expr(S, stmt.condition),
        LAMBDA S1, condition_result :
            IF is_true(condition_result) THEN eval_stmt(S1, stmt.if_branch)
            ELSE IF stmt.else_branch.k # "None" THEN eval_stmt(S1, stmt.else_branch)
            ELSE Ok(S1, Nil))

\* eval_while_stmt (tree_walker.rs:176-181)
eval_while_stmt(S, stmt) ==
    Try(eval_expr(S, stmt.condition),
        LAMBDA S1, condition_result :
            IF ~is_true(condition_result) THEN Ok(S1, Nil)
            ELSE Try(eval_stmt(S1, stmt.body),
                     LAMBDA S2, unit :
                         IF S2.fuel = 0 THEN Err(S2, "StackExhausted", "while")
                         ELSE eval_while_stmt([S2 EXCEPT !.fuel = @ - 1], stmt)))

\* eval_stmt (tree_walker.rs:57-69)
eval_stmt(S, statement) ==
    CASE statement.k = "VarDecl" -> eval_var_decl(S, statement)
      [] statement.k = "Print" -> eval_print_stmt(S, statement)
      [] statement.k = "Block" ->
           eval_block_stmt(boxed_with_enclosing(S, S.environment), statement.statements,
                           Len(S.envs) + 1)
      [] statement.k = "Expr" -> eval_expr_stmt(S, statement)
      [] statement.k = "If" -> eval_if_stmt(S, statement)
      [] statement.k = "While" -> eval_while_stmt(S, statement)
      [] statement.k = "FunDecl" -> eval_fun_decl(S, statement)
      [] statement.k = "Return" -> eval_return_stmt(S, statement)
      [] statement.k = "ClassDecl" -> eval_class_decl(S, statement)

\* the lookup of lookup_var (tree_walker.rs:356-361) through a slot that holds a
\* distance, as the log sees it
note_lookup(S, expr, height, found) ==
    IF height.some
    THEN [S EXCEPT !.lookups = Append(@, [kind |-> expr.k, name |-> expr.name,
                                          height |-> height.value, found |-> found])]
    ELSE S

\* a variant that starts at the superclass of the receiver's class
eval_super_from_receiver(S, expr) ==
    LET height == height_get(S, expr.id)
        object == IF height.some /\ height.value >= 1
                  THEN Environment_get_at(S, S.environment, "this", height.value - 1)
                  ELSE None
        superclass == S.classes[S.instances[object.value.r].class].superclass
        method == Class_method(S, superclass, expr.method)
    IN  IF ~object.some THEN Err(S, "panic", "called Option::unwrap() on a None value")
        ELSE IF object.value.t # "Instance" THEN Err(S, "panic", "This is not found")
        ELSE IF superclass = 0 THEN Err(S, "panic", "Superclass not found")
        ELSE IF method = 0 THEN Err(S, "UndefinedProperty", expr.method)
        ELSE Ok(Function_bind(S, method, object.value.r), FunctionV(Len(S.functions) + 1))

\* eval_super (tree_walker.rs:201-213)
eval_super(S, expr) ==
    LET height == height_get(S, expr.id)
        superclass == lookup_var(S, "super", height)
        object == IF height.some /\ height.value >= 1
                  THEN Environment_get_at(S, S.environment, "this", height.value - 1)
                  ELSE None
        method == Class_method(S, superclass.value.r, expr.method)
        S1 == note_lookup(S, expr, height,
                          /\ superclass.some /\ superclass.value.t = "Class"
                          /\ object.some /\ object.value.t = "Instance")
    IN  IF ~(superclass.some /\ superclass.value.t = "Class")
        THEN Err(S1, "panic", "Superclass not found")
        ELSE IF ~object.some THEN Err(S1, "panic", "called Option::unwrap() on a None value")
        ELSE IF object.value.t # "Instance" THEN Err(S1, "panic", "This is not found")
        ELSE IF method = 0 THEN Err(S1, "UndefinedProperty", expr.method)
        ELSE Ok(Function_bind(S1, method, object.value.r), FunctionV(Len(S.functions) + 1))

\* the assignment of eval_assignment (tree_walker.rs:217-220), as the log sees it
note_assign(before, after, name, value, height, ok) ==
    [(IF height.some
      THEN borrow_chain(after, before.environment, height.value, before.borrows)
      ELSE borrow_chain(after, before.globals, 0, before.borrows))
       EXCEPT !.assigns = Append(@, [name |-> name, value |-> value, height |-> height,
                                         environment |-> before.environment,
                                         before |-> before.envs, after |-> after.envs,
                                         ok |-> ok])]

\* eval_assignment (tree_walker.rs:215-222)
eval_assignment(S, expr) ==
    Try(eval_expr(S, expr.value),
        LAMBDA S1, value :
            IF height_get(S1, expr.id).some
            THEN Ok(note_assign(S1,
                                Environment_assign_at(S1, S1.environment, expr.name, value,
                                                      height_get(S1, expr.id).value),
                                expr.name, value, height_get(S1, expr.id), TRUE),
                    value)
            ELSE Match(Environment_assign(S1, S1.globals, expr.name, value),
                       LAMBDA r : [S |-> note_assign(S1, r.S, expr.name, value, None, IsOk(r)),
                                   value |-> IF IsOk(r) THEN value ELSE Nil,
                                   error |-> r.error]))

\* eval_variable (tree_walker.rs:224-229), eval_this (tree_walker.rs:231-236)
eval_variable(S, expr) ==
    LET height == height_get(S, expr.id)
        found == lookup_var(S, expr.name, height)
        S1 == note_lookup(S, expr, height, found.some)
    IN  IF found.some THEN Ok(S1, found.value) ELSE Err(S1, "UndefinedVariable", expr.name)

\* eval_get (tree_walker.rs:238-243)
eval_get(S, expr) ==
    Try(eval_expr(S, expr.object),
        LAMBDA S1, object : IF object.t = "Instance" THEN Instance_get(S1, object.r, expr.name)
                            ELSE Err(S1, "NotAnInstance", expr.name))

\* a variant that sets the field on a clone of the instance, which it drops
eval_set_on_clone(S, expr) ==
    Try(eval_expr(S, expr.object),
        LAMBDA S1, object :
            IF object.t # "Instance" THEN Err(S1, "NotAnInstance", expr.name)
            ELSE Try(eval_expr(S1, expr.value), LAMBDA S2, value : Ok(S2, value)))

\* a variant that borrows the instance before it evaluates the value
eval_set_borrows_first(S, expr) ==
    Try(eval_expr(S, expr.object),
        LAMBDA S1, object :
            IF object.t # "Instance" THEN Err(S1, "NotAnInstance", expr.name)
            ELSE IF << "instance", object.r >> \in S1.borrows
            THEN Err(S1, "panic", "already borrowed: BorrowMutError")
            ELSE Match(eval_expr([borrow_mut(S1, << "instance", object.r >>, S1.borrows)
                                    EXCEPT !.borrows = @ \cup {<< "instance", object.r >>}],
                                 expr.value),
                       LAMBDA r :
                          IF IsOk(r)
                          THEN Ok([r.S EXCEPT !.borrows = S1.borrows,
                                              !.instances[object.r].fields =
                                                  Put(@, expr.name, r.value),
                                              !.sets = Append(@, [instance |-> object.r,
                                                                  name |-> expr.name,
                                                                  value |-> r.value,
                                                                  before |-> r.S.instances])],
                                  r.value)
                          ELSE [r EXCEPT !.S.borrows = S1.borrows]))

\* eval_set (tree_walker.rs:245-252)
eval_set(S, expr) ==
    Try(eval_expr(S, expr.object),
        LAMBDA S1, object :
            IF object.t # "Instance" THEN Err(S1, "NotAnInstance", expr.name)
            ELSE Try(eval_expr(S1, expr.value),
                     LAMBDA S2, value :
                        IF << "instance", object.r >> \in S2.borrows
                        THEN Err(S2, "panic", "already borrowed: BorrowMutError")
                        ELSE Ok(Instance_set(S2, object.r, expr.name, value), value)))

\* a variant that evaluates both operands before it chooses
eval_or_eager(S, expr) ==
    Try(eval_expr(S, expr.left),
        LAMBDA S1, left_value :
           Try(eval_expr(S1, expr.right),
               LAMBDA S2, right_value : IF is_true(left_value) THEN Ok(S2, left_value)
                                        ELSE Ok(S2, right_value)))

\* eval_or (tree_walker.rs:254-261)
eval_or(S, expr) ==
    Try(eval_expr(S, expr.left),
        LAMBDA S1, left_value : IF is_true(left_value) THEN Ok(S1, left_value)
                                ELSE eval_expr(S1, expr.right))

\* eval_and (tree_walker.rs:263-270)
eval_and(S, expr) ==
    Try(eval_expr(S, expr.left),
        LAMBDA S1, left_value : IF ~is_true(left_value) THEN Ok(S1, left_value)
                                ELSE eval_expr(S1, expr.right))

\* args.iter().map(|arg| self.eval_expr(arg)).collect::<Result<Vec<_>>>()
\* (tree_walker.rs:294): vals is carried in the value field of the result
eval_args(S, args, vals) ==
    IF Len(args) = 0 THEN [S |-> S, value |-> vals, error |-> NoError]
    ELSE Try(eval_expr(S, Head(args)),
             LAMBDA S1, value : eval_args(S1, Tail(args), Append(vals, value)))

\* the arity match of eval_call (tree_walker.rs:279-284)
arity(S, callee) ==
    CASE callee.t = "Function" -> Function_arity(S, callee.r)
      [] callee.t = "NativeFunction" -> S.natives[callee.r].arity
      [] callee.t = "Class" -> Class_arity(S, callee.r)

\* a variant with the two counts exchanged
InvalidArgumentCount_swapped(S, expected, actual) ==
    [S |-> S, value |-> Nil,
     error |-> [kind |-> "InvalidArgumentCount", lexeme |-> ")",
                expected |-> actual, actual |-> expected]]

\* RuntimeError::InvalidArgumentCount { token, expected, actual } (tree_walker.rs:287-291)
InvalidArgumentCount(S, expected, actual) ==
    [S |-> S, value |-> Nil,
     error |-> [kind |-> "InvalidArgumentCount", lexeme |-> ")",
                expected |-> expected, actual |-> actual]]

\* a variant that evaluates the arguments before it checks the callee
eval_call_args_first(S, expr) ==
    Try(eval_expr(S, expr.callee),
        LAMBDA S1, callee :
            Try(eval_args(S1, expr.args, <<>>),
                LAMBDA S2, args :
                    IF callee.t \notin {"Function", "NativeFunction", "Class"}
                    THEN Err(S2, "NotValidCallable", ")")
                    ELSE IF Len(expr.args) # arity(S2, callee)
                    THEN InvalidArgumentCount(S2, arity(S2, callee), Len(expr.args))
                    ELSE CASE callee.t = "Function" -> Function_call(S2, callee.r, args)
                           [] callee.t = "NativeFunction" -> NativeFunction_call(S2, callee.r, args)
                           [] callee.t = "Class" -> Class_init(S2, callee.r, args)))

\* eval_call (tree_walker.rs:272-301)
eval_call(S, expr) ==
    Try(eval_expr(S, expr.callee),
        LAMBDA S1, callee :
            IF callee.t \notin {"Function", "NativeFunction", "Class"}
            THEN Err(S1, "NotValidCallable", ")")
            ELSE IF Len(expr.args) # arity(S1, callee)
            THEN InvalidArgumentCount(S1, arity(S1, callee), Len(expr.args))
            ELSE Try(eval_args(S1, expr.args, <<>>),
                     LAMBDA S2, args :
                         CASE callee.t = "Function" -> Function_call(S2, callee.r, args)
                           [] callee.t = "NativeFunction" -> NativeFunction_call(S2, callee.r, args)
                           [] callee.t = "Class" -> Class_init(S2, callee.r, args)))

\* the match of eval_binary (tree_walker.rs:307-336) on two operand values
binary_op(S, l, operator, r) ==
    CASE l.t = "Number" /\ r.t = "Number" /\ operator = "Plus" -> Ok(S, f64_add(l, r))
      [] l.t = "Number" /\ r.t = "Number" /\ operator = "Minus" -> Ok(S, f64_sub(l, r))
      [] l.t = "Number" /\ r.t = "Number" /\ operator = "Star" -> Ok(S, f64_mul(l, r))
      [] l.t = "Number" /\ r.t = "Number" /\ operator = "Div" -> Ok(S, f64_div(l, r))
      [] l.t = "Number" /\ r.t = "Number" /\ operator = "Greater" -> Ok(S, Bool(f64_lt(r, l)))
      [] l.t = "Number" /\ r.t = "Number" /\ operator = "GreaterEq" ->
           Ok(S, Bool(f64_lt(r, l) \/ f64_eq(l, r)))
      [] l.t = "Number" /\ r.t = "Number" /\ operator = "Less" -> Ok(S, Bool(f64_lt(l, r)))
      [] l.t = "Number" /\ r.t = "Number" /\ operator = "LessEq" ->
           Ok(S, Bool(f64_lt(l, r) \/ f64_eq(l, r)))
      [] l.t = "String" /\ r.t = "String" /\ operator = "Plus" -> Ok(S, String(l.s \o r.s))
      [] l.t = "Bool" /\ r.t = "Bool" /\ operator = "And" -> Ok(S, Bool(l.b /\ r.b))
      [] l.t = "Bool" /\ r.t = "Bool" /\ operator = "Or" -> Ok(S, Bool(l.b \/ r.b))
      [] operator = "Equal" -> Ok(S, Bool(Value_eq(S, l, r)))
      [] operator = "NotEqual" -> Ok(S, Bool(~Value_eq(S, l, r)))
      [] operator \in {"Plus", "Minus", "Div", "Star", "Greater", "GreaterEq", "Less", "LessEq"} ->
           Err(S, "IncompatibleOperandType", "Operands must be numbers")
      [] OTHER -> Err(S, "panic", "Invalid binary operation")

\* eval_binary (tree_walker.rs:303-337)
eval_binary(S, expr) ==
    Try(eval_expr(S, expr.left),
        LAMBDA S1, left_value :
            Try(eval_expr(S1, expr.right),
                LAMBDA S2, right_value : binary_op(S2, left_value, expr.operator, right_value)))

\* the match of eval_unary (tree_walker.rs:341-351) on the operand value
unary_op(S, operator, value) ==
    CASE operator = "Minus" ->
           (IF value.t = "Number" THEN Ok(S, f64_neg(value))
            ELSE Err(S, "IncompatibleOperandType", "Operand must be a number"))
      [] operator = "Not" -> Ok(S, Bool(~is_true(value)))
      [] OTHER -> Err(S, "panic", "Invalid unary operator")

\* eval_unary (tree_walker.rs:339-352)
eval_unary(S, expr) ==
    Try(eval_expr(S, expr.expr), LAMBDA S1, value : unary_op(S1, expr.operator, value))

\* eval_expr (tree_walker.rs:183-199)
eval_expr(S, expr) ==
    CASE expr.k = "Asign" -> eval_assignment(S, expr)
      [] expr.k = "Binary" -> eval_binary(S, expr)
      [] expr.k = "Unary" -> eval_unary(S, expr)
      [] expr.k = "Grouping" -> eval_expr(S, expr.expr)
      [] expr.k = "Literal" -> Ok(S, expr.value)
      [] expr.k = "Variable" -> eval_variable(S, expr)
      [] expr.k = "LogicalOr" -> eval_or(S, expr)
      [] expr.k = "LogicalAnd" -> eval_and(S, expr)
      [] expr.k = "Call" -> eval_call(S, expr)
      [] expr.k = "Get" -> eval_get(S, expr)
      [] expr.k = "Set" -> eval_set(S, expr)
      [] expr.k = "This" -> eval_variable(S, expr)
      [] expr.k = "Super" -> eval_super(S, expr)

\* interpret (tree_walker.rs:46-49) of a statement whose slots hold `height`
interpret(S, stmt, height) == eval_stmt([S EXCEPT !.height = height], stmt)

(***************************************************************************)
(* Programs.  V builds a variable node, L and Str literals; the id of a    *)
(* slot is unique within its program.                                     *)
(***************************************************************************)
V(id, name) == EVariable(id, name)
L(n) == ELiteral(Num(n))
Str(s) == ELiteral(String(s))

FixedNames ==
    {"block_read", "counter", "alias", "super", "init", "arity_fun", "arity_more",
     "arity_class", "arity_no_init", "dup_params", "three_errors",
     "unwind", "error_inside", "late_local", "self_init", "self_init_shadow",
     "init_then_read", "assign_undefined", "assign_late", "assign_shadow", "assign_far",
     "self_inherit", "bound", "bad_super", "bad_super_redeclared", "bad_super_block",
     "redeclare", "assign_in_initializer", "reentrant", "top_level"}

FixedProgram(name) ==
    CASE name = "block_read" ->
           \* { var a = 1; { print a; } }
           << SBlock(<< SVarDecl("a", L(1)), SBlock(<< SPrint(V(1, "a")) >>) >>) >>
      [] name = "counter" ->
           \* fun make() { var i = 0; fun inc() { i = i + 1; print i; } return inc; }
           \* var c = make(); c(); c(); var d = make(); d(); c();
           << FunctionDecl("make", <<>>,
                << SVarDecl("i", L(0)),
                   FunctionDecl("inc", <<>>,
                     << SExpr(EAsign(1, "i", EBinary(V(2, "i"), "Plus", L(1)))),
                        SPrint(V(3, "i")) >>),
                   SReturn(V(4, "inc")) >>),
              SVarDecl("c", ECall(V(5, "make"), <<>>)),
              SExpr(ECall(V(6, "c"), <<>>)),
              SExpr(ECall(V(7, "c"), <<>>)),
              SVarDecl("d", ECall(V(8, "make"), <<>>)),
              SExpr(ECall(V(9, "d"), <<>>)),
              SExpr(ECall(V(10, "c"), <<>>)) >>
      [] name = "alias" ->
           \* class A {} var a = A(); a.x = 1; var b = a; b.x = 2; print a.x;
           \* var c = A(); c.x = 5; fun set(o) { o.x = 7; } set(b); print a.x; print c.x;
           \* a = c; a.x = 9; print c.x; print b.x;
           << SClassDecl("A", NoExpr, <<>>),
              SVarDecl("a", ECall(V(1, "A"), <<>>)),
              SExpr(ESet(V(2, "a"), "x", L(1))),
              SVarDecl("b", V(3, "a")),
              SExpr(ESet(V(4, "b"), "x", L(2))),
              SPrint(EGet(V(5, "a"), "x")),
              SVarDecl("c", ECall(V(6, "A"), <<>>)),
              SExpr(ESet(V(7, "c"), "x", L(5))),
              FunctionDecl("set", << "o" >>, << SExpr(ESet(V(8, "o"), "x", L(7))) >>),
              SExpr(ECall(V(9, "set"), << V(10, "b") >>)),
              SPrint(EGet(V(11, "a"), "x")),
              SPrint(EGet(V(12, "c"), "x")),
              SExpr(EAsign(13, "a", V(14, "c"))),
              SExpr(ESet(V(15, "a"), "x", L(9))),
              SPrint(EGet(V(16, "c"), "x")),
              SPrint(EGet(V(17, "b"), "x")) >>
      [] name = "super" ->
           \* class A { m() { return "A"; } who() { return this.tag; } }
           \* class B < A { m() { return "B"; } t() { return super.m(); } w() { return super.who(); } }
           \* class C < B { m() { return "C"; } who() { return "C.who"; } }
           \* var b = B(); b.tag = "b"; var c = C(); c.tag = "c";
           \* print b.t(); print c.t(); print b.w(); print c.w(); print c.m();
           << SClassDecl("A", NoExpr,
                << FunctionDecl("m", <<>>, << SReturn(Str("A")) >>),
                   FunctionDecl("who", <<>>, << SReturn(EGet(EThis(1), "tag")) >>) >>),
              SClassDecl("B", V(2, "A"),
                << FunctionDecl("m", <<>>, << SReturn(Str("B")) >>),
                   FunctionDecl("t", <<>>, << SReturn(ECall(ESuper(3, "m"), <<>>)) >>),
                   FunctionDecl("w", <<>>, << SReturn(ECall(ESuper(4, "who"), <<>>)) >>) >>),
              SClassDecl("C", V(5, "B"),
                << FunctionDecl("m", <<>>, << SReturn(Str("C")) >>),
                   FunctionDecl("who", <<>>, << SReturn(Str("C.who")) >>) >>),
              SVarDecl("b", ECall(V(6, "B"), <<>>)),
              SExpr(ESet(V(7, "b"), "tag", Str("b"))),
              SVarDecl("c", ECall(V(8, "C"), <<>>)),
              SExpr(ESet(V(9, "c"), "tag", Str("c"))),
              SPrint(ECall(EGet(V(10, "b"), "t"), <<>>)),
              SPrint(ECall(EGet(V(11, "c"), "t"), <<>>)),
              SPrint(ECall(EGet(V(12, "b"), "w"), <<>>)),
              SPrint(ECall(EGet(V(13, "c"), "w"), <<>>)),
              SPrint(ECall(EGet(V(14, "c"), "m"), <<>>)) >>
      [] name = "init" ->
           \* class C { init() { return; } } print C();
           \* class D { init(x) { this.x = x; return; this.x = 0; } } class E < D {}
           \* var e = E(7); print e; print e.x; class P {} print P();
           << SClassDecl("C", NoExpr, << FunctionDecl("init", <<>>, << SReturn(NoExpr) >>) >>),
              SPrint(ECall(V(1, "C"), <<>>)),
              SClassDecl("D", NoExpr,
                << FunctionDecl("init", << "x" >>,
                     << SExpr(ESet(EThis(2), "x", V(3, "x"))),
                        SReturn(NoExpr),
                        SExpr(ESet(EThis(4), "x", L(0))) >>) >>),
              SClassDecl("E", V(5, "D"), <<>>),
              SVarDecl("e", ECall(V(6, "E"), << L(7) >>)),
              SPrint(V(7, "e")),
              SPrint(EGet(V(8, "e"), "x")),
              SClassDecl("P", NoExpr, <<>>),
              SPrint(ECall(V(9, "P"), <<>>)) >>
      [] name = "arity_fun" ->
           \* fun f(a, b) { print "ran"; } print "start"; f(1);
           << FunctionDecl("f", << "a", "b" >>, << SPrint(Str("ran")) >>),
              SPrint(Str("start")),
              SExpr(ECall(V(1, "f"), << L(1) >>)) >>
      [] name = "arity_more" ->
           \* fun g() { print "ran"; } g(1, 2);
           << FunctionDecl("g", <<>>, << SPrint(Str("ran")) >>),
              SExpr(ECall(V(1, "g"), << L(1), L(2) >>)) >>
      [] name = "arity_class" ->
           \* class A { init(x) { print "ran"; } } class B < A {} B();
           << SClassDecl("A", NoExpr, << FunctionDecl("init", << "x" >>, << SPrint(Str("ran")) >>) >>),
              SClassDecl("B", V(1, "A"), <<>>),
              SExpr(ECall(V(2, "B"), <<>>)) >>
      [] name = "arity_no_init" ->
           \* class P {} P(1);
           << SClassDecl("P", NoExpr, <<>>),
              SExpr(ECall(V(1, "P"), << L(1) >>)) >>
      [] name = "dup_params" ->
           \* fun f(a, a) {} print 1;
           << FunctionDecl("f", << "a", "a" >>, <<>>),
              SPrint(L(1)) >>
      [] name = "three_errors" ->
           \* return 1; { var a; var a; } print this; print 2;
           << SReturn(L(1)),
              SBlock(<< SVarDecl("a", NoExpr), SVarDecl("a", NoExpr) >>),
              SPrint(EThis(1)),
              SPrint(L(2)) >>
      [] name = "unwind" ->
           \* fun f(x) { { while (true) { if (x) { { return "r"; } } } } }
           \* fun outer() { fun inner() { return "inner"; } var x = inner();
           \*               return "outer:" + x; print "unreached"; }
           \* class A { m() { { return this; } } }
           \* print f(true); print outer(); print A().m();
           << FunctionDecl("f", << "x" >>,
                << SBlock(<< SWhile(ELiteral(Bool(TRUE)),
                                    SBlock(<< SIf(V(1, "x"),
                                                  SBlock(<< SBlock(<< SReturn(Str("r")) >>) >>),
                                                  NoStmt) >>)) >>) >>),
              FunctionDecl("outer", <<>>,
                << FunctionDecl("inner", <<>>, << SReturn(Str("inner")) >>),
                   SVarDecl("x", ECall(V(2, "inner"), <<>>)),
                   SReturn(EBinary(Str("outer:"), "Plus", V(3, "x"))),
                   SPrint(Str("unreached")) >>),
              SClassDecl("A", NoExpr,
                << FunctionDecl("m", <<>>, << SBlock(<< SReturn(EThis(4)) >>) >>) >>),
              SPrint(ECall(V(5, "f"), << ELiteral(Bool(TRUE)) >>)),
              SPrint(ECall(V(6, "outer"), <<>>)),
              SPrint(ECall(EGet(ECall(V(7, "A"), <<>>), "m"), <<>>)) >>
      [] name = "error_inside" ->
           \* class A {} class B < A { m() { { print "in"; { return this.nothing; } } } }
           \* var x = 1; print "before"; B().m(); print "after"; x = 2;
           << SClassDecl("A", NoExpr, <<>>),
              SClassDecl("B", V(1, "A"),
                << FunctionDecl("m", <<>>,
                     << SBlock(<< SPrint(Str("in")),
                                  SBlock(<< SReturn(EGet(EThis(2), "nothing")) >>) >>) >>) >>),
              SVarDecl("x", L(1)),
              SPrint(Str("before")),
              SExpr(ECall(EGet(ECall(V(3, "B"), <<>>), "m"), <<>>)),
              SPrint(Str("after")),
              SExpr(EAsign(4, "x", L(2))) >>
      [] name = "late_local" ->
           \* var a = "global";
           \* { fun show() { print a; } fun set() { a = "changed"; }
           \*   show(); var a = "block"; show(); set(); print a; show(); }
           \* print a;
           << SVarDecl("a", Str("global")),
              SBlock(<< FunctionDecl("show", <<>>, << SPrint(V(1, "a")) >>),
                        FunctionDecl("set", <<>>, << SExpr(EAsign(2, "a", Str("changed"))) >>),
                        SExpr(ECall(V(3, "show"), <<>>)),
                        SVarDecl("a", Str("block")),
                        SExpr(ECall(V(4, "show"), <<>>)),
                        SExpr(ECall(V(5, "set"), <<>>)),
                        SPrint(V(6, "a")),
                        SExpr(ECall(V(7, "show"), <<>>)) >>),
              SPrint(V(8, "a")) >>
      [] name = "self_init" ->
           \* { var a = a; } print "unreached";
           << SBlock(<< SVarDecl("a", V(1, "a")) >>), SPrint(Str("unreached")) >>
      [] name = "self_init_shadow" ->
           \* { var a = 1; { var a = a; } }
           << SBlock(<< SVarDecl("a", L(1)), SBlock(<< SVarDecl("a", V(1, "a")) >>) >>) >>
      [] name = "init_then_read" ->
           \* { var a = 1; var b = a; print a + b; { var c = a; print c; } }
           << SBlock(<< SVarDecl("a", L(1)),
                        SVarDecl("b", V(1, "a")),
                        SPrint(EBinary(V(2, "a"), "Plus", V(3, "b"))),
                        SBlock(<< SVarDecl("c", V(4, "a")), SPrint(V(5, "c")) >>) >>) >>
      [] name = "assign_undefined" ->
           \* var g = 1; { var l = 2; u = 3; } print "unreached";
           << SVarDecl("g", L(1)),
              SBlock(<< SVarDecl("l", L(2)), SExpr(EAsign(1, "u", L(3))) >>),
              SPrint(Str("unreached")) >>
      [] name = "assign_late" ->
           \* { fun f() { a = 1; } var a = 0; f(); print a; }
           << SBlock(<< FunctionDecl("f", <<>>, << SExpr(EAsign(1, "a", L(1))) >>),
                        SVarDecl("a", L(0)),
                        SExpr(ECall(V(2, "f"), <<>>)),
                        SPrint(V(3, "a")) >>) >>
      [] name = "assign_shadow" ->
           \* var a = 1; { var a = 2; print a = 3; print a; } print a;
           << SVarDecl("a", L(1)),
              SBlock(<< SVarDecl("a", L(2)),
                        SPrint(EAsign(1, "a", L(3))),
                        SPrint(V(2, "a")) >>),
              SPrint(V(3, "a")) >>
      [] name = "assign_far" ->
           \* { var a = 1; { fun f() { a = 5; } var a = 2; f(); print a; } print a; }
           << SBlock(<< SVarDecl("a", L(1)),
                        SBlock(<< FunctionDecl("f", <<>>, << SExpr(EAsign(1, "a", L(5))) >>),
                                  SVarDecl("a", L(2)),
                                  SExpr(ECall(V(2, "f"), <<>>)),
                                  SPrint(V(3, "a")) >>),
                        SPrint(V(4, "a")) >>) >>
      [] name = "self_inherit" ->
           \* class A < A {} print "unreached";
           << SClassDecl("A", V(1, "A"), <<>>), SPrint(Str("unreached")) >>
      [] name = "bound" ->
           \* class P { init(n) { this.n = n; } who() { return this.n; } }
           \* var a = P("a"); var b = P("b"); var m = a.who; b.borrowed = a.who;
           \* var mb = b.who; print m(); print b.borrowed(); print mb(); print m();
           << SClassDecl("P", NoExpr,
                << FunctionDecl("init", << "n" >>, << SExpr(ESet(EThis(1), "n", V(2, "n"))) >>),
                   FunctionDecl("who", <<>>, << SReturn(EGet(EThis(3), "n")) >>) >>),
              SVarDecl("a", ECall(V(4, "P"), << Str("a") >>)),
              SVarDecl("b", ECall(V(5, "P"), << Str("b") >>)),
              SVarDecl("m", EGet(V(6, "a"), "who")),
              SExpr(ESet(V(7, "b"), "borrowed", EGet(V(8, "a"), "who"))),
              SVarDecl("mb", EGet(V(9, "b"), "who")),
              SPrint(ECall(V(10, "m"), <<>>)),
              SPrint(ECall(EGet(V(11, "b"), "borrowed"), <<>>)),
              SPrint(ECall(V(12, "mb"), <<>>)),
              SPrint(ECall(V(13, "m"), <<>>)) >>
      [] name = "bad_super" ->
           \* var S = "s"; class D < S {} print "unreached";
           << SVarDecl("S", Str("s")), SClassDecl("D", V(1, "S"), <<>>),
              SPrint(Str("unreached")) >>
      [] name = "bad_super_redeclared" ->
           \* var S = "s"; var D = 5; class D < S {} print "unreached";
           << SVarDecl("S", Str("s")), SVarDecl("D", L(5)), SClassDecl("D", V(1, "S"), <<>>),
              SPrint(Str("unreached")) >>
      [] name = "bad_super_block" ->
           \* var S = "s"; { var x = 1; class D < S {} } print "unreached";
           << SVarDecl("S", Str("s")),
              SBlock(<< SVarDecl("x", L(1)), SClassDecl("D", V(1, "S"), <<>>) >>),
              SPrint(Str("unreached")) >>
      [] name = "redeclare" ->
           \* class A { m() { return "old"; } }  class B < A {}
           \* class A < B { n() { return "new"; } }
           \* var a = A(); print a.n(); print a.m(); var b = B(); print b.m();
           \* print a.missing;
           << SClassDecl("A", NoExpr, << FunctionDecl("m", <<>>, << SReturn(Str("old")) >>) >>),
              SClassDecl("B", V(1, "A"), <<>>),
              SClassDecl("A", V(2, "B"), << FunctionDecl("n", <<>>, << SReturn(Str("new")) >>) >>),
              SVarDecl("a", ECall(V(3, "A"), <<>>)),
              SPrint(ECall(EGet(V(4, "a"), "n"), <<>>)),
              SPrint(ECall(EGet(V(5, "a"), "m"), <<>>)),
              SVarDecl("b", ECall(V(6, "B"), <<>>)),
              SPrint(ECall(EGet(V(7, "b"), "m"), <<>>)),
              SPrint(EGet(V(8, "a"), "missing")) >>
      [] name = "assign_in_initializer" ->
           \* { var a = a = 1; print a; }
           << SBlock(<< SVarDecl("a", EAsign(1, "a", L(1))), SPrint(V(2, "a")) >>) >>
      [] name = "reentrant" ->
           \* class C { bump() { this.n = this.n + 1; return this.n; } }
           \* var o = C(); o.n = 0; o.n = o.bump() + o.bump(); print o.n;
           \* o.self = o; o.self.n = o.self.bump() + o.n; print o.n;
           \* { var t = 0; fun rec(k) { if (k > 0) t = t + rec(k - 1); return k; }
           \*   rec(2); print t; }
           << SClassDecl("C", NoExpr,
                << FunctionDecl("bump", <<>>,
                     << SExpr(ESet(EThis(1), "n", EBinary(EGet(EThis(2), "n"), "Plus", L(1)))),
                        SReturn(EGet(EThis(3), "n")) >>) >>),
              SVarDecl("o", ECall(V(4, "C"), <<>>)),
              SExpr(ESet(V(5, "o"), "n", L(0))),
              SExpr(ESet(V(6, "o"), "n",
                         EBinary(ECall(EGet(V(7, "o"), "bump"), <<>>), "Plus",
                                 ECall(EGet(V(8, "o"), "bump"), <<>>)))),
              SPrint(EGet(V(9, "o"), "n")),
              SExpr(ESet(V(10, "o"), "self", V(11, "o"))),
              SExpr(ESet(EGet(V(12, "o"), "self"), "n",
                         EBinary(ECall(EGet(EGet(V(13, "o"), "self"), "bump"), <<>>), "Plus",
                                 EGet(V(14, "o"), "n")))),
              SPrint(EGet(V(15, "o"), "n")),
              SBlock(<< SVarDecl("t", L(0)),
                        FunctionDecl("rec", << "k" >>,
                          << SIf(EBinary(V(16, "k"), "Greater", L(0)),
                                 SExpr(EAsign(17, "t",
                                         EBinary(V(18, "t"), "Plus",
                                                 ECall(V(19, "rec"),
                                                       << EBinary(V(20, "k"), "Minus", L(1)) >>)))),
                                 NoStmt),
                             SReturn(V(21, "k")) >>),
                        SExpr(ECall(V(22, "rec"), << L(2) >>)),
                        SPrint(V(23, "t")) >>) >>
      [] name = "top_level" ->
           \* var a = 1; var a = 2;
           \* fun f() { { print a; a = 3; } }  class K { m() { return a; } }
           \* f(); print K().m(); var b = b;
           << SVarDecl("a", L(1)), SVarDecl("a", L(2)),
              FunctionDecl("f", <<>>,
                << SBlock(<< SPrint(V(1, "a")), SExpr(EAsign(2, "a", L(3))) >>) >>),
              SClassDecl("K", NoExpr, << FunctionDecl("m", <<>>, << SReturn(V(3, "a")) >>) >>),
              SExpr(ECall(V(4, "f"), <<>>)),
              SPrint(ECall(EGet(ECall(V(5, "K"), <<>>), "m"), <<>>)),
              SVarDecl("b", V(6, "b")) >>

(***************************************************************************)
(* Nested programs.  A shape is a sequence of levels, outermost first; a   *)
(* level is a block, a function that is declared and called, or a method   *)
(* of a class (submethod: of a subclass of Base) that is declared and      *)
(* called on a new instance.                                               *)
(* decl says whether the level declares `a` in its scope: 0 no, 1 once (a  *)
(* var of the block, the parameter of the function or method), 2 twice (a  *)
(* second var in the same scope).  Inside the innermost level `a` is       *)
(* read, assigned and read again; at top level `a` is a global.            *)
(***************************************************************************)
MaxDepth == 3

Kinds == {"block", "fun", "method", "submethod"}

Levels == [kind : Kinds, decl : 0..2]

Shapes == UNION {[1..n -> Levels] : n \in 1..MaxDepth}

RECURSIVE NestBody(_, _)
NestBody(shape, l) ==
    IF l > Len(shape)
    THEN << SPrint(V(1, "a")), SExpr(EAsign(2, "a", L(9))), SPrint(V(3, "a")) >>
    ELSE LET lv == shape[l]
             decl1 == IF lv.decl >= 1 THEN << SVarDecl("a", L(l)) >> ELSE <<>>
             decl2 == IF lv.decl = 2 THEN << SVarDecl("a", L(l)) >> ELSE <<>>
             params == IF lv.decl >= 1 THEN << "a" >> ELSE <<>>
             args == IF lv.decl >= 1 THEN << L(l) >> ELSE <<>>
             f == "f" \o NatToString(l)
             K == "K" \o NatToString(l)
         IN  CASE lv.kind = "block" ->
                    << SBlock(decl1 \o decl2 \o NestBody(shape, l + 1)) >>
               [] lv.kind = "fun" ->
                    << FunctionDecl(f, params, decl2 \o NestBody(shape, l + 1)),
                       SExpr(ECall(V(20 + l, f), args)) >>
               [] lv.kind \in {"method", "submethod"} ->
                    << SClassDecl(K, IF lv.kind = "submethod" THEN V(10 + l, "Base") ELSE NoExpr,
                                  << FunctionDecl("m", params, decl2 \o NestBody(shape, l + 1)) >>),
                       SExpr(ECall(EGet(ECall(V(30 + l, K), <<>>), "m"), args)) >>

NestProgram(shape) ==
    << SClassDecl("Base", NoExpr, <<>>), SVarDecl("a", L(0)) >> \o NestBody(shape, 1)

(***************************************************************************)
(* Operator programs.  After a prelude that defines a function, a class    *)
(* and an instance, a binary program applies one operator to two operands  *)
(* and a truth program puts one operand where truthiness decides.          *)
(***************************************************************************)
Operands ==
    {"zero", "one", "two", "s1", "sa", "true", "false", "nil", "f", "clock", "K", "i"}

TruthOperands == Operands \cup {"empty"}

BinaryOperators ==
    {"Plus", "Minus", "Star", "Div", "Greater", "GreaterEq", "Less", "LessEq", "Equal", "NotEqual"}

Operand(name, id) ==
    CASE name = "zero" -> L(0)
      [] name = "one" -> L(1)
      [] name = "two" -> L(2)
      [] name = "s1" -> Str("1")
      [] name = "sa" -> Str("a")
      [] name = "empty" -> Str("")
      [] name = "true" -> ELiteral(Bool(TRUE))
      [] name = "false" -> ELiteral(Bool(FALSE))
      [] name = "nil" -> ELiteral(Nil)
      [] OTHER -> V(id, name)

\* fun f() {} class K {} var i = K();
Prelude ==
    << FunctionDecl("f", <<>>, <<>>),
       SClassDecl("K", NoExpr, <<>>),
       SVarDecl("i", ECall(V(20, "K"), <<>>)) >>

\* var r = <left> <operator> <right>; print r;
BinaryProgram(left, operator, right) ==
    Prelude \o
    << SVarDecl("r", EBinary(Operand(left, 1), operator, Operand(right, 2))),
       SPrint(V(3, "r")) >>

\* var n = !x; if (x) print "then"; else print "else"; if (x) print "then";
\* var c = x; while (c) { print "body"; c = nil; }
\* var a = x and "rhs"; var o = x or "rhs"; var m = -x;
TruthProgram(x) ==
    Prelude \o
    << SVarDecl("n", EUnary("Not", Operand(x, 1))),
       SIf(Operand(x, 2), SPrint(Str("then")), SPrint(Str("else"))),
       SIf(Operand(x, 3), SPrint(Str("then")), NoStmt),
       SVarDecl("c", Operand(x, 4)),
       SWhile(V(5, "c"), SBlock(<< SPrint(Str("body")), SExpr(EAsign(6, "c", ELiteral(Nil))) >>)),
       SVarDecl("a", ELogicalAnd(Operand(x, 7), Str("rhs"))),
       SVarDecl("o", ELogicalOr(Operand(x, 8), Str("rhs"))),
       SVarDecl("m", EUnary("Minus", Operand(x, 9))) >>

(***************************************************************************)
(* Equality programs.  The operands are variables holding instances,       *)
(* classes and functions: two classes declared with one name, two          *)
(* functions declared with one name, instances of either class, with       *)
(* different fields, and methods bound to different instances.             *)
(***************************************************************************)
EqualityOperators == {"Equal", "NotEqual"}

References ==
    {"a1", "a2", "a3", "b1", "A", "A2", "B", "f", "f2", "g", "who", "m1", "m2"}

\* class A { who() {} }  class B { who() {} }
\* fun f() {}  fun g() {}  fun who() {}
\* fun inner() { class A {} return A; }
\* fun nested() { fun f() { return 1; } return f; }
\* var a1 = A(); a1.x = 1; var a2 = A(); a2.x = 2; var b1 = B();
\* var A2 = inner(); var a3 = A2(); var f2 = nested();
\* var m1 = a1.who; var m2 = b1.who;
\* print <x> <operator> <y>;
EqualityProgram(x, operator, y) ==
    << SClassDecl("A", NoExpr, << FunctionDecl("who", <<>>, <<>>) >>),
       SClassDecl("B", NoExpr, << FunctionDecl("who", <<>>, <<>>) >>),
       FunctionDecl("f", <<>>, <<>>),
       FunctionDecl("g", <<>>, <<>>),
       FunctionDecl("who", <<>>, <<>>),
       FunctionDecl("inner", <<>>,
         << SClassDecl("A", NoExpr, <<>>), SReturn(V(1, "A")) >>),
       FunctionDecl("nested", <<>>,
         << FunctionDecl("f", <<>>, << SReturn(L(1)) >>), SReturn(V(2, "f")) >>),
       SVarDecl("a1", ECall(V(3, "A"), <<>>)),
       SExpr(ESet(V(4, "a1"), "x", L(1))),
       SVarDecl("a2", ECall(V(5, "A"), <<>>)),
       SExpr(ESet(V(6, "a2"), "x", L(2))),
       SVarDecl("b1", ECall(V(7, "B"), <<>>)),
       SVarDecl("A2", ECall(V(8, "inner"), <<>>)),
       SVarDecl("a3", ECall(V(9, "A2"), <<>>)),
       SVarDecl("f2", ECall(V(10, "nested"), <<>>)),
       SVarDecl("m1", EGet(V(11, "a1"), "who")),
       SVarDecl("m2", EGet(V(12, "b1"), "who")),
       SPrint(EBinary(V(13, x), operator, V(14, y))) >>

(***************************************************************************)
(* Logical programs.  Both operands are calls of functions that count      *)
(* their calls, so that evaluating an operand leaves a trace.              *)
(***************************************************************************)
LogicalOperators == {"LogicalOr", "LogicalAnd"}

RightOperands == {"zero", "false", "nil", "sa", "i"}

\* var ls = 0; var rs = 0;
\* fun left() { ls = ls + 1; return <x>; }
\* fun right() { rs = rs + 1; print "right"; return <y>; }
\* var r = left() <operator> right();
LogicalProgram(x, operator, y) ==
    Prelude \o
    << SVarDecl("ls", L(0)),
       SVarDecl("rs", L(0)),
       FunctionDecl("left", <<>>,
         << SExpr(EAsign(1, "ls", EBinary(V(2, "ls"), "Plus", L(1)))),
            SReturn(Operand(x, 3)) >>),
       FunctionDecl("right", <<>>,
         << SExpr(EAsign(4, "rs", EBinary(V(5, "rs"), "Plus", L(1)))),
            SPrint(Str("right")),
            SReturn(Operand(y, 6)) >>),
       SVarDecl("r", [k |-> operator, left |-> ECall(V(7, "left"), <<>>),
                      right |-> ECall(V(8, "right"), <<>>)]) >>

(***************************************************************************)
(* Call programs.  The callee and every argument are calls of functions,   *)
(* so that the order of the evaluations is the order of the calls.         *)
(***************************************************************************)
Callees == Operands \cup {"g", "K2"}

ArgCounts == 0..3

\* fun note(t) { return t; }  fun g(a, b) { print a; print b; }
\* class K2 { init(a, b) {} }  fun callee() { return <x>; }
\* { var v = "1"; callee()(note(v), note("2"), note("3")); }
\* with the first n of the three arguments
CallProgram(x, n) ==
    Prelude \o
    << FunctionDecl("note", << "t" >>, << SReturn(V(1, "t")) >>),
       FunctionDecl("g", << "a", "b" >>, << SPrint(V(2, "a")), SPrint(V(3, "b")) >>),
       SClassDecl("K2", NoExpr, << FunctionDecl("init", << "a", "b" >>, <<>>) >>),
       FunctionDecl("callee", <<>>, << SReturn(Operand(x, 4)) >>),
       SBlock(<< SVarDecl("v", Str("1")),
                 SExpr(ECall(ECall(V(5, "callee"), <<>>),
                             SubSeq(<< ECall(V(6, "note"), << V(7, "v") >>),
                                       ECall(V(8, "note"), << Str("2") >>),
                                       ECall(V(9, "note"), << Str("3") >>) >>, 1, n))) >>) >>

(***************************************************************************)
(* Declaration programs.  Three class declarations over the names A and B, *)
(* each with no superclass or with the other name as superclass, then a    *)
(* lookup that goes through the whole chain of each class.                 *)
(***************************************************************************)
Declarations ==
    { << "A", "none" >>, << "A", "B" >>, << "B", "none" >>, << "B", "A" >> }

\* class <name> [< <superclass>] {}  three times;
\* var a = A(); print a.missing;
DeclarationProgram(decls) ==
    [j \in 1..3 |-> SClassDecl(decls[j][1],
                                IF decls[j][2] = "none" THEN NoExpr ELSE V(j, decls[j][2]),
                                <<>>)]
    \o << SVarDecl("a", ECall(V(4, "A"), <<>>)),
          SPrint(EGet(V(5, "a"), "missing")) >>

(***************************************************************************)
(* Property programs.  One property is read from one operand: a field, a   *)
(* method, a name that is both, or a name that is neither.                 *)
(***************************************************************************)
Properties == {"f", "m", "fm", "none"}

\* fun f() {} class B { m() { return this.tag; } }
\* class K < B { fm() { return "method"; } }
\* var i = K(); i.tag = "t"; i.f = "field"; i.fm = "shadow";
\* var r = <x>.<property>; print r; print i.m();
GetProgram(x, property) ==
    << FunctionDecl("f", <<>>, <<>>),
       SClassDecl("B", NoExpr,
         << FunctionDecl("m", <<>>, << SReturn(EGet(EThis(10), "tag")) >>) >>),
       SClassDecl("K", V(15, "B"),
         << FunctionDecl("fm", <<>>, << SReturn(Str("method")) >>) >>),
       SVarDecl("i", ECall(V(11, "K"), <<>>)),
       SExpr(ESet(V(12, "i"), "tag", Str("t"))),
       SExpr(ESet(V(13, "i"), "f", Str("field"))),
       SExpr(ESet(V(14, "i"), "fm", Str("shadow"))),
       SVarDecl("r", EGet(Operand(x, 1), property)),
       SPrint(V(2, "r")),
       SPrint(ECall(EGet(V(3, "i"), "m"), <<>>)) >>

(***************************************************************************)
(* Chain programs.  Classes A, B < A and C < B; defs says which of them    *)
(* define the method m and which define init.  The init of the l-th class  *)
(* takes l parameters and writes the name of its class to the field by.    *)
(***************************************************************************)
ChainNames == << "A", "B", "C" >>

ChainDefs == [1..3 -> SUBSET {"m", "init"}]

\* the nearest of the classes l, l-1, .. 1 that defines name, or 0
Nearest(defs, name, l) ==
    IF \E k \in 1..l : name \in defs[k]
    THEN CHOOSE k \in 1..l : name \in defs[k] /\ \A j \in (k + 1)..l : name \notin defs[j]
    ELSE 0

ChainClass(defs, l) ==
    SClassDecl(ChainNames[l], IF l = 1 THEN NoExpr ELSE V(10 * l + 2, ChainNames[l - 1]),
      (IF "m" \in defs[l]
       THEN << FunctionDecl("m", <<>>, << SReturn(Str(ChainNames[l])) >>) >>
       ELSE <<>>)
      \o
      (IF "init" \in defs[l]
       THEN << FunctionDecl("init", [i \in 1..l |-> "p" \o Digit(i)],
                 << SExpr(ESet(EThis(10 * l + 1), "by", Str(ChainNames[l]))) >>) >>
       ELSE <<>>))

\* class A {..} class B < A {..} class C < B {..}
\* var c = C(1, ..); print c.by; var b = B(1, ..); print b.by;
\* print c.m(); print b.m();
\* with as many arguments as the nearest init takes, and print "none" for print x.by
\* where there is no init
ChainProgram(defs) ==
    << ChainClass(defs, 1), ChainClass(defs, 2), ChainClass(defs, 3),
       SVarDecl("c", ECall(V(41, "C"), [i \in 1..Nearest(defs, "init", 3) |-> L(i)])),
       SPrint(IF Nearest(defs, "init", 3) # 0 THEN EGet(V(42, "c"), "by") ELSE Str("none")),
       SVarDecl("b", ECall(V(43, "B"), [i \in 1..Nearest(defs, "init", 2) |-> L(i)])),
       SPrint(IF Nearest(defs, "init", 2) # 0 THEN EGet(V(44, "b"), "by") ELSE Str("none")),
       SPrint(ECall(EGet(V(45, "c"), "m"), <<>>)),
       SPrint(ECall(EGet(V(46, "b"), "m"), <<>>)) >>

(***************************************************************************)
(* Return programs.  One return statement, bare or with the value "v", at  *)
(* one place of a program; where the place is inside a function or method  *)
(* the program calls it and prints what the call gave.                     *)
(***************************************************************************)
ReturnPlaces ==
    {"top", "top_block", "top_if", "after_fun", "after_class", "fun", "fun_block", "method",
     "init", "fun_in_init", "init_after_fun"}

ReturnForms == {"bare", "value"}

Return(form) == SReturn(IF form = "value" THEN Str("v") ELSE NoExpr)

ReturnProgram(place, form) ==
    CASE place = "top" ->
           \* print "start"; return; print "end";
           << SPrint(Str("start")), Return(form), SPrint(Str("end")) >>
      [] place = "top_block" ->
           \* { return; }
           << SBlock(<< Return(form) >>) >>
      [] place = "top_if" ->
           \* while (true) if (true) return;
           << SWhile(ELiteral(Bool(TRUE)), SIf(ELiteral(Bool(TRUE)), Return(form), NoStmt)) >>
      [] place = "after_fun" ->
           \* fun f() { return "f"; } return;
           << FunctionDecl("f", <<>>, << SReturn(Str("f")) >>), Return(form) >>
      [] place = "after_class" ->
           \* class A { m() { return "m"; } } return;
           << SClassDecl("A", NoExpr, << FunctionDecl("m", <<>>, << SReturn(Str("m")) >>) >>),
              Return(form) >>
      [] place = "fun" ->
           \* fun f() { return; print "unreached"; } print f();
           << FunctionDecl("f", <<>>, << Return(form), SPrint(Str("unreached")) >>),
              SPrint(ECall(V(1, "f"), <<>>)) >>
      [] place = "fun_block" ->
           \* fun f() { while (true) { if (true) { return; } } } print f();
           << FunctionDecl("f", <<>>,
                << SWhile(ELiteral(Bool(TRUE)),
                          SBlock(<< SIf(ELiteral(Bool(TRUE)), SBlock(<< Return(form) >>),
                                        NoStmt) >>)) >>),
              SPrint(ECall(V(1, "f"), <<>>)) >>
      [] place = "method" ->
           \* class A { m() { return; } } print A().m();
           << SClassDecl("A", NoExpr, << FunctionDecl("m", <<>>, << Return(form) >>) >>),
              SPrint(ECall(EGet(ECall(V(1, "A"), <<>>), "m"), <<>>)) >>
      [] place = "init" ->
           \* class A { init() { this.x = "set"; return; this.x = "unreached"; } } print A().x;
           << SClassDecl("A", NoExpr,
                << FunctionDecl("init", <<>>,
                     << SExpr(ESet(EThis(1), "x", Str("set"))),
                        Return(form),
                        SExpr(ESet(EThis(2), "x", Str("unreached"))) >>) >>),
              SPrint(EGet(ECall(V(3, "A"), <<>>), "x")) >>
      [] place = "fun_in_init" ->
           \* class A { init() { fun g() { return; } this.x = g(); } } print A().x;
           << SClassDecl("A", NoExpr,
                << FunctionDecl("init", <<>>,
                     << FunctionDecl("g", <<>>, << Return(form) >>),
                        SExpr(ESet(EThis(1), "x", ECall(V(2, "g"), <<>>))) >>) >>),
              SPrint(EGet(ECall(V(3, "A"), <<>>), "x")) >>
      [] place = "init_after_fun" ->
           \* class A { init() { fun g() { return "g"; } this.x = g(); return; } } print A().x;
           << SClassDecl("A", NoExpr,
                << FunctionDecl("init", <<>>,
                     << FunctionDecl("g", <<>>, << SReturn(Str("g")) >>),
                        SExpr(ESet(EThis(1), "x", ECall(V(2, "g"), <<>>))),
                        Return(form) >>) >>),
              SPrint(EGet(ECall(V(3, "A"), <<>>), "x")) >>

(***************************************************************************)
(* Class-context programs.  One use of `this` or of `super.m` at one place *)
(* of a program; where the place is inside a method the program calls it   *)
(* and prints what the use gave.                                           *)
(***************************************************************************)
ClassUses == {"this", "super"}

ClassPlaces ==
    {"top", "fun", "class", "subclass", "class_in_sub", "after_class", "after_subclass",
     "sub_after_nested"}

Use(use, id) == IF use = "this" THEN EThis(id) ELSE ESuper(id, "m")

ClassProgram(place, use) ==
    CASE place = "top" ->
           \* print this;
           << SPrint(Use(use, 1)) >>
      [] place = "fun" ->
           \* fun f() { return this; } print f();
           << FunctionDecl("f", <<>>, << SReturn(Use(use, 1)) >>),
              SPrint(ECall(V(2, "f"), <<>>)) >>
      [] place = "class" ->
           \* class A { t() { return this; } } print A().t();
           << SClassDecl("A", NoExpr, << FunctionDecl("t", <<>>, << SReturn(Use(use, 1)) >>) >>),
              SPrint(ECall(EGet(ECall(V(2, "A"), <<>>), "t"), <<>>)) >>
      [] place = "subclass" ->
           \* class A { m() {} } class B < A { t() { return this; } } print B().t();
           << SClassDecl("A", NoExpr, << FunctionDecl("m", <<>>, <<>>) >>),
              SClassDecl("B", V(2, "A"),
                << FunctionDecl("t", <<>>, << SReturn(Use(use, 1)) >>) >>),
              SPrint(ECall(EGet(ECall(V(3, "B"), <<>>), "t"), <<>>)) >>
      [] place = "class_in_sub" ->
           \* class A { m() {} }
           \* class B < A { t() { class N { u() { return this; } } return N().u(); } }
           \* print B().t();
           << SClassDecl("A", NoExpr, << FunctionDecl("m", <<>>, <<>>) >>),
              SClassDecl("B", V(2, "A"),
                << FunctionDecl("t", <<>>,
                     << SClassDecl("N", NoExpr,
                          << FunctionDecl("u", <<>>, << SReturn(Use(use, 1)) >>) >>),
                        SReturn(ECall(EGet(ECall(V(3, "N"), <<>>), "u"), <<>>)) >>) >>),
              SPrint(ECall(EGet(ECall(V(4, "B"), <<>>), "t"), <<>>)) >>
      [] place = "after_class" ->
           \* class A { m() { return this; } } print this;
           << SClassDecl("A", NoExpr, << FunctionDecl("m", <<>>, << SReturn(EThis(2)) >>) >>),
              SPrint(Use(use, 1)) >>
      [] place = "after_subclass" ->
           \* class A { m() {} } class B < A { t() { return super.m; } } print this;
           << SClassDecl("A", NoExpr, << FunctionDecl("m", <<>>, <<>>) >>),
              SClassDecl("B", V(2, "A"),
                << FunctionDecl("t", <<>>, << SReturn(ESuper(3, "m")) >>) >>),
              SPrint(Use(use, 1)) >>
      [] place = "sub_after_nested" ->
           \* class A { m() {} } class B < A { t() { class N {} return this; } } print B().t();
           << SClassDecl("A", NoExpr, << FunctionDecl("m", <<>>, <<>>) >>),
              SClassDecl("B", V(2, "A"),
                << FunctionDecl("t", <<>>,
                     << SClassDecl("N", NoExpr, <<>>), SReturn(Use(use, 1)) >>) >>),
              SPrint(ECall(EGet(ECall(V(3, "B"), <<>>), "t"), <<>>)) >>

(***************************************************************************)
(* run (main.rs:102-126): resolve every statement, stop with status 65 if  *)
(* the resolver recorded an error, else interpret the statements in order  *)
(* and stop with status 70 at the first Err.                               *)
(***************************************************************************)
StartRun(program) ==
    /\ statements = program
    /\ phase = "resolve"
    /\ resolved = 0
    /\ executed = 0
    /\ resolver = Resolver_new
    /\ interpreter = TreeWalk_new
    /\ last = [value |-> Nil, error |-> NoError]

Init ==
    \/ \E name \in FixedNames :
          /\ input = [family |-> "fixed", name |-> name]
          /\ StartRun(FixedProgram(name))
    \/ \E shape \in Shapes :
          /\ input = [family |-> "nest", shape |-> shape]
          /\ StartRun(NestProgram(shape))
    \/ \E left \in Operands, operator \in BinaryOperators, right \in Operands :
          /\ input = [family |-> "binary", left |-> left, operator |-> operator, right |-> right]
          /\ StartRun(BinaryProgram(left, operator, right))
    \/ \E x \in TruthOperands :
          /\ input = [family |-> "truth", operand |-> x]
          /\ StartRun(TruthProgram(x))
    \/ \E x \in Operands, property \in Properties :
          /\ input = [family |-> "get", operand |-> x, property |-> property]
          /\ StartRun(GetProgram(x, property))
    \/ \E x \in TruthOperands, operator \in LogicalOperators, y \in RightOperands :
          /\ input = [family |-> "logical", left |-> x, operator |-> operator, right |-> y]
          /\ StartRun(LogicalProgram(x, operator, y))
    \/ \E x \in References, operator \in EqualityOperators, y \in References :
          /\ input = [family |-> "equality", left |-> x, operator |-> operator, right |-> y]
          /\ StartRun(EqualityProgram(x, operator, y))
    \/ \E x \in Callees, n \in ArgCounts :
          /\ input = [family |-> "call", callee |-> x, args |-> n]
          /\ StartRun(CallProgram(x, n))
    \/ \E decls \in [1..3 -> Declarations] :
          /\ input = [family |-> "declarations", decls |-> decls]
          /\ StartRun(DeclarationProgram(decls))
    \/ \E defs \in ChainDefs :
          /\ input = [family |-> "chain", defs |-> defs]
          /\ StartRun(ChainProgram(defs))
    \/ \E place \in ClassPlaces, use \in ClassUses :
          /\ input = [family |-> "class", place |-> place, use |-> use]
          /\ StartRun(ClassProgram(place, use))
    \/ \E place \in ReturnPlaces, form \in ReturnForms :
          /\ input = [family |-> "return", place |-> place, form |-> form]
          /\ StartRun(ReturnProgram(place, form))

\* a variant that stops resolving at the first statement with an error
Resolve_fail_fast ==
    /\ phase = "resolve"
    /\ resolved < Len(statements)
    /\ resolver' = resolve_stmt(resolver, statements[resolved + 1])
    /\ resolved' = IF resolver'.has_err THEN Len(statements) ELSE resolved + 1
    /\ UNCHANGED <<statements, phase, executed, interpreter, last, input>>

\* main.rs:114, one turn of the for_each
Resolve ==
    /\ phase = "resolve"
    /\ resolved < Len(statements)
    /\ resolver' = resolve_stmt(resolver, statements[resolved + 1])
    /\ resolved' = resolved + 1
    /\ UNCHANGED <<statements, phase, executed, interpreter, last, input>>

\* main.rs:115-117
CheckErrors ==
    /\ phase = "resolve"
    /\ resolved = Len(statements)
    /\ phase' = IF resolver.has_err THEN "exit65" ELSE "interpret"
    /\ UNCHANGED <<statements, resolved, executed, resolver, interpreter, last, input>>

\* a variant that reports the error and goes on with the next statement
Interpret_continues_after_error ==
    /\ phase = "interpret"
    /\ executed < Len(statements)
    /\ LET r == interpret(interpreter, statements[executed + 1], resolver.height)
       IN  /\ interpreter' = r.S
           /\ last' = [value |-> r.value, error |-> r.error]
    /\ phase' = "interpret"
    /\ executed' = executed + 1
    /\ UNCHANGED <<statements, resolved, resolver, input>>

\* main.rs:119-124, one turn of the loop
Interpret ==
    /\ phase = "interpret"
    /\ executed < Len(statements)
    /\ LET r == interpret(interpreter, statements[executed + 1], resolver.height)
       IN  /\ interpreter' = r.S
           /\ last' = [value |-> r.value, error |-> r.error]
           /\ phase' = IF IsOk(r) THEN "interpret" ELSE "exit70"
    /\ executed' = executed + 1
    /\ UNCHANGED <<statements, resolved, resolver, input>>

\* main.rs:125
Finish ==
    /\ phase = "interpret"
    /\ executed = Len(statements)
    /\ phase' = "done"
    /\ UNCHANGED <<statements, resolved, executed, resolver, interpreter, last, input>>

Next == Resolve \/ CheckErrors \/ Interpret \/ Finish

Spec == Init /\ [][Next]_vars

(***************************************************************************)
(* What the runs are compared with.                                        *)
(***************************************************************************)
IsFixed(name) == input.family = "fixed" /\ input.name = name

Resolved == phase # "resolve"

Globals == interpreter.envs[interpreter.globals].values

SetMax(set) == CHOOSE m \in set : \A x \in set : x <= m

IsPrefix(s, t) == Len(s) <= Len(t) /\ s = SubSeq(t, 1, Len(s))

\* the scopes one level of a nested program opens around what is inside it
ScopesOf(kind) ==
    CASE kind = "block" -> 1
      [] kind = "fun" -> 1
      [] kind = "method" -> 2
      [] kind = "submethod" -> 3

RECURSIVE ScopesFrom(_, _)
ScopesFrom(shape, l) ==
    IF l > Len(shape) THEN 0 ELSE ScopesOf(shape[l].kind) + ScopesFrom(shape, l + 1)

Declaring(shape) == {l \in DOMAIN shape : shape[l].decl >= 1}

Redeclaring(shape) == {l \in DOMAIN shape : shape[l].decl = 2}

(***************************************************************************)
(* C1: for every Variable or Assign reference whose name is in an open     *)
(* scope, the recorded distance is the number of scopes between the        *)
(* innermost scope and the nearest scope that holds the name; in a nested  *)
(* program that is the number of scopes the levels inside the nearest      *)
(* declaring level open, and the read one block inside the declaring block *)
(* gets distance 1.                                                        *)
(***************************************************************************)
C1_Distance ==
    /\ \A k \in 1..Len(resolver.notes) :
          LET note == resolver.notes[k]
              holding == {i \in 1..Len(note.stack) : note.name \in note.stack[i]}
          IN  (note.kind \in {"Variable", "Asign"} /\ holding # {}) =>
                 /\ note.id \in DOMAIN resolver.height
                 /\ resolver.height[note.id] = Len(note.stack) - SetMax(holding)
    /\ (input.family = "nest" /\ Resolved /\ Declaring(input.shape) # {}) =>
          \A id \in 1..3 :
             /\ id \in DOMAIN resolver.height
             /\ resolver.height[id] = ScopesFrom(input.shape, SetMax(Declaring(input.shape)) + 1)
    /\ (IsFixed("block_read") /\ Resolved) =>
          (1 \in DOMAIN resolver.height /\ resolver.height[1] = 1)

C1_Witness ==
    /\ IsFixed("block_read")
    /\ phase = "done"
    /\ resolver.height[1] = 1
    /\ Len(resolver.notes) = 1

(***************************************************************************)
(* C2: every call runs in a new frame whose parent is the frame the        *)
(* function captured; the counter closure prints 1 then 2, the closure of  *)
(* a second call of make starts again at 1, and the first goes on to 3.    *)
(***************************************************************************)
C2_Closure ==
    /\ \A k \in 1..Len(interpreter.calls) :
          LET call == interpreter.calls[k]
          IN  /\ interpreter.envs[call.frame].enclosing
                   = interpreter.functions[call.function].closure
              /\ \A j \in 1..Len(interpreter.calls) :
                    j # k => interpreter.calls[j].frame # call.frame
    /\ IsFixed("counter") =>
          /\ phase \notin {"exit65", "exit70"}
          /\ IsPrefix(interpreter.out, <<"1", "2", "1", "3">>)
          /\ phase = "done" =>
                /\ interpreter.out = <<"1", "2", "1", "3">>
                /\ interpreter.functions[Globals["c"].r].closure
                     # interpreter.functions[Globals["d"].r].closure

C2_Witness ==
    /\ IsFixed("counter")
    /\ phase = "done"
    /\ interpreter.out = <<"1", "2", "1", "3">>
    /\ Len(interpreter.calls) = 6

(***************************************************************************)
(* C3: a Set changes the named field of the one instance it is given, to   *)
(* the value written, and no other instance; copies of an Instance value   *)
(* are aliases, so what is written through one is read through the others. *)
(***************************************************************************)
C3_Aliasing ==
    /\ \A k \in 1..Len(interpreter.sets) :
          LET set == interpreter.sets[k]
              after == IF k < Len(interpreter.sets) THEN interpreter.sets[k + 1].before
                       ELSE interpreter.instances
          IN  /\ set.name \in DOMAIN after[set.instance].fields
              /\ after[set.instance].fields[set.name] = set.value
              /\ \A n \in DOMAIN set.before[set.instance].fields :
                    n # set.name =>
                       after[set.instance].fields[n] = set.before[set.instance].fields[n]
              /\ \A j \in 1..Len(set.before) : j # set.instance => after[j] = set.before[j]
    /\ IsFixed("alias") =>
          /\ phase \notin {"exit65", "exit70"}
          /\ IsPrefix(interpreter.out, <<"2", "7", "5", "9", "7">>)
          /\ Len(interpreter.instances) <= 2
          /\ phase = "done" =>
                /\ interpreter.out = <<"2", "7", "5", "9", "7">>
                /\ Globals["a"] = Globals["c"]
                /\ Globals["a"] # Globals["b"]

C3_Witness ==
    /\ IsFixed("alias")
    /\ phase = "done"
    /\ interpreter.out = <<"2", "7", "5", "9", "7">>
    /\ Len(interpreter.sets) = 5

(***************************************************************************)
(* C4: super.m in a method of B (B < A) is A's m, although B overrides m   *)
(* and also when the receiver is an instance of C < B that overrides m;    *)
(* the method found is bound to the receiver (super.who() reads its tag).  *)
(***************************************************************************)
C4_Super ==
    IsFixed("super") =>
       /\ phase \notin {"exit65", "exit70"}
       /\ IsPrefix(interpreter.out, <<"A", "A", "b", "c", "C">>)
       /\ phase = "done" => interpreter.out = <<"A", "A", "b", "c", "C">>

C4_Witness ==
    /\ IsFixed("super")
    /\ phase = "done"
    /\ interpreter.out = <<"A", "A", "b", "c", "C">>

(***************************************************************************)
(* C5: the value of a class call is the new instance, also when the        *)
(* initializer runs a bare return; the initializer found in the ancestor   *)
(* chain runs bound to that instance with the arguments of the call.       *)
(***************************************************************************)
C5_Init ==
    IsFixed("init") =>
       /\ phase \notin {"exit65", "exit70"}
       /\ IsPrefix(interpreter.out, <<"C instance", "E instance", "7", "P instance">>)
       /\ executed >= 5 =>
             /\ Globals["e"] = InstanceV(2)
             /\ interpreter.classes[interpreter.instances[2].class].name = "E"
             /\ interpreter.instances[2].fields = Put(EmptyMap, "x", Num(7))
       /\ phase = "done" =>
             /\ interpreter.out = <<"C instance", "E instance", "7", "P instance">>
             /\ Len(interpreter.instances) = 3
             /\ Len(interpreter.calls) = 2

C5_Witness ==
    /\ IsFixed("init")
    /\ phase = "done"
    /\ interpreter.out = <<"C instance", "E instance", "7", "P instance">>

\* what a call with the wrong number of arguments ends the run with
ArgumentCountError(expected, actual) ==
    [kind |-> "InvalidArgumentCount", lexeme |-> ")", expected |-> expected, actual |-> actual]

\* the run of a program whose last statement is a call with the wrong number of
\* arguments: the earlier statements succeed, the call fails with these counts
\* and no function body has run
EndsInArgumentCount(expected, actual, out) ==
    /\ phase # "done"
    /\ phase # "exit65"
    /\ interpreter.calls = <<>>
    /\ IsPrefix(interpreter.out, out)
    /\ (phase = "exit70") = (executed = Len(statements))
    /\ phase = "exit70" =>
          /\ last.error = ArgumentCountError(expected, actual)
          /\ interpreter.out = out

(***************************************************************************)
(* C6: a call with a number of arguments other than the arity fails with   *)
(* InvalidArgumentCount(expected = arity, actual = arguments) before the   *)
(* body runs; the arity of a function is its parameter count, that of a    *)
(* class the parameter count of the init of its ancestor chain, else 0.    *)
(***************************************************************************)
C6_Arity ==
    /\ \A k \in 1..Len(interpreter.calls) :
          LET call == interpreter.calls[k]
          IN  Len(call.args) = Len(interpreter.functions[call.function].params)
    /\ last.error.kind = "InvalidArgumentCount" => last.error.expected # last.error.actual
    /\ IsFixed("arity_fun") => EndsInArgumentCount(2, 1, <<"start">>)
    /\ IsFixed("arity_more") => EndsInArgumentCount(0, 2, <<>>)
    /\ IsFixed("arity_class") => EndsInArgumentCount(1, 0, <<>>)
    /\ IsFixed("arity_no_init") => EndsInArgumentCount(0, 1, <<>>)

C6_Witness ==
    /\ IsFixed("arity_fun")
    /\ phase = "exit70"
    /\ last.error = ArgumentCountError(2, 1)
    /\ interpreter.out = <<"start">>

(***************************************************************************)
(* C7: a name declared twice in one block or one function body (the        *)
(* parameters are in the body's scope) is a static error, once for each    *)
(* such scope; a name declared again in a nested scope is none.            *)
(***************************************************************************)
C7_Redeclare ==
    /\ (input.family = "nest" /\ Resolved) =>
          /\ resolver.has_err = (Redeclaring(input.shape) # {})
          /\ Len(resolver.errors) = Cardinality(Redeclaring(input.shape))
          /\ \A k \in 1..Len(resolver.errors) :
                resolver.errors[k] = [lexeme |-> "a",
                                      err |-> "Already a variable with this name in this scope."]
    /\ (IsFixed("dup_params") /\ Resolved) =>
          (resolver.has_err /\ phase = "exit65" /\ Len(resolver.errors) = 1)
    /\ (IsFixed("block_read") /\ Resolved) => ~resolver.has_err

C7_Witness ==
    /\ input.family = "nest"
    /\ phase = "exit65"
    /\ Len(input.shape) = 3
    /\ input.shape[1].decl = 1
    /\ input.shape[2].decl = 2
    /\ input.shape[3].decl = 1
    /\ Len(resolver.errors) = 1

\* the operands of the operator programs, as the formulas see them
KindOf(name) ==
    CASE name \in {"zero", "one", "two"} -> "Number"
      [] name \in {"s1", "sa", "empty"} -> "String"
      [] name \in {"true", "false"} -> "Bool"
      [] name = "nil" -> "Nil"
      [] name = "f" -> "Function"
      [] name = "clock" -> "NativeFunction"
      [] name = "K" -> "Class"
      [] name = "i" -> "Instance"

NumberOf(name) == CASE name = "zero" -> 0 [] name = "one" -> 1 [] name = "two" -> 2

TextOf(name) == CASE name = "s1" -> "1" [] name = "sa" -> "a" [] name = "empty" -> ""

NumericOperators ==
    {"Plus", "Minus", "Star", "Div", "Greater", "GreaterEq", "Less", "LessEq"}

\* value is the result of the operator on the integers x and y
IsResultOf(value, x, operator, y) ==
    CASE operator = "Plus" -> value.t = "Number" /\ value.d > 0 /\ value.n = (x + y) * value.d
      [] operator = "Minus" -> value.t = "Number" /\ value.d > 0 /\ value.n = (x - y) * value.d
      [] operator = "Star" -> value.t = "Number" /\ value.d > 0 /\ value.n = (x * y) * value.d
      [] operator = "Div" ->
           /\ value.t = "Number"
           /\ IF y = 0
              THEN value.d = 0 /\ (x = 0 <=> value.n = 0) /\ (x > 0 <=> value.n > 0)
              ELSE value.d > 0 /\ value.n * y = x * value.d
      [] operator = "Greater" -> value = Bool(x > y)
      [] operator = "GreaterEq" -> value = Bool(x >= y)
      [] operator = "Less" -> value = Bool(x < y)
      [] operator = "LessEq" -> value = Bool(x <= y)

Succeeded == last.error.kind = "None" /\ phase # "exit70"

FailedWith(kind) == last.error.kind = kind /\ phase = "exit70"

\* the statement `var r = left operator right;` of a binary program
BinaryOutcome(left, operator, right) ==
    CASE operator \in NumericOperators /\ KindOf(left) = "Number" /\ KindOf(right) = "Number" ->
           /\ Succeeded
           /\ "r" \in DOMAIN Globals
           /\ IsResultOf(Globals["r"], NumberOf(left), operator, NumberOf(right))
      [] operator = "Plus" /\ KindOf(left) = "String" /\ KindOf(right) = "String" ->
           /\ Succeeded
           /\ "r" \in DOMAIN Globals
           /\ Globals["r"] = String(TextOf(left) \o TextOf(right))
      [] operator \in NumericOperators ->
           /\ FailedWith("IncompatibleOperandType")
           /\ "r" \notin DOMAIN Globals
      [] operator \in {"Equal", "NotEqual"} ->
           /\ Succeeded
           /\ "r" \in DOMAIN Globals
           /\ Globals["r"].t = "Bool"
           /\ KindOf(left) # KindOf(right) => Globals["r"] = Bool(operator = "NotEqual")
           /\ (KindOf(left) = "Number" /\ KindOf(right) = "Number") =>
                 Globals["r"] = Bool((operator = "Equal") = (NumberOf(left) = NumberOf(right)))

(***************************************************************************)
(* C8: + - * / > >= < <= on two Numbers give the numeric or boolean        *)
(* result and + on two Strings their concatenation; on every other pair    *)
(* they fail with IncompatibleOperandType, as unary - does on a            *)
(* non-Number; == and != never fail, and values of different kinds are     *)
(* unequal (1 == "1" is false).                                            *)
(***************************************************************************)
C8_Operands ==
    /\ (input.family = "binary" /\ executed >= 4) =>
          BinaryOutcome(input.left, input.operator, input.right)
    /\ (input.family = "binary" /\ phase = "done"
          /\ input.left = "one" /\ input.right = "s1") =>
          CASE input.operator = "Equal" -> interpreter.out = <<"false">>
            [] input.operator = "NotEqual" -> interpreter.out = <<"true">>
            [] OTHER -> FALSE
    /\ (input.family = "truth" /\ executed = 11) =>
          IF KindOf(input.operand) = "Number"
          THEN Succeeded /\ IsResultOf(Globals["m"], 0, "Minus", NumberOf(input.operand))
          ELSE FailedWith("IncompatibleOperandType") /\ "m" \notin DOMAIN Globals

C8_Witness ==
    /\ input.family = "binary"
    /\ input.left = "one"
    /\ input.operator = "Plus"
    /\ input.right = "sa"
    /\ executed = 4
    /\ FailedWith("IncompatibleOperandType")

Falsy(name) == name \in {"nil", "false"}

\* what the operand of a truth program evaluates to
IsValueOf(value, name) ==
    /\ value.t = KindOf(name)
    /\ CASE KindOf(name) = "Number" -> value = Num(NumberOf(name))
         [] KindOf(name) = "String" -> value = String(TextOf(name))
         [] KindOf(name) = "Bool" -> value = Bool(name = "true")
         [] KindOf(name) = "Nil" -> value = Nil
         [] OTHER -> value = Globals[name]

(***************************************************************************)
(* C9: only nil and false are falsy: !x is true exactly for them, `if`     *)
(* takes its else branch and `while` skips its body exactly for them,      *)
(* `x and y` is x exactly for them and y otherwise, `x or y` is y exactly  *)
(* for them and x otherwise; 0, "", functions, classes and instances are   *)
(* true.                                                                   *)
(***************************************************************************)
C9_Truthiness ==
    input.family = "truth" =>
       /\ executed <= 10 => Succeeded
       /\ executed >= 4 => Globals["n"] = Bool(Falsy(input.operand))
       /\ executed = 5 =>
             interpreter.out = IF Falsy(input.operand) THEN <<"else">> ELSE <<"then">>
       /\ executed \in 6..7 =>
             interpreter.out = IF Falsy(input.operand) THEN <<"else">> ELSE <<"then", "then">>
       /\ executed >= 8 =>
             interpreter.out = IF Falsy(input.operand) THEN <<"else">>
                               ELSE <<"then", "then", "body">>
       /\ executed >= 9 =>
             IF Falsy(input.operand) THEN IsValueOf(Globals["a"], input.operand)
             ELSE Globals["a"] = String("rhs")
       /\ executed >= 10 =>
             IF Falsy(input.operand) THEN Globals["o"] = String("rhs")
             ELSE IsValueOf(Globals["o"], input.operand)

C9_Witness ==
    /\ input.family = "truth"
    /\ input.operand = "zero"
    /\ executed = 10
    /\ Globals["n"] = Bool(FALSE)
    /\ interpreter.out = <<"then", "then", "body">>
    /\ Globals["o"] = Num(0)

\* the run never executes a statement of a program with a static error
NothingExecuted == executed = 0 /\ interpreter = TreeWalk_new

(***************************************************************************)
(* C10: every top-level statement is resolved, also after an error (the    *)
(* three statements in error of three_errors give three errors and each    *)
(* redeclaring level of a nested program gives one); the error flag is     *)
(* never cleared; no statement is executed before the whole program is     *)
(* resolved, and none at all when the flag is set.                         *)
(***************************************************************************)
C10_Accumulate ==
    /\ [](/\ Resolved => resolved = Len(statements)
          /\ resolver.has_err = (resolver.errors # <<>>)
          /\ (resolver.has_err \/ ~Resolved) => NothingExecuted
          /\ (resolver.has_err /\ Resolved) => phase = "exit65"
          /\ (IsFixed("three_errors") /\ Resolved) => Len(resolver.errors) = 3
          /\ (input.family = "nest" /\ Resolved) =>
                Len(resolver.errors) = Cardinality(Redeclaring(input.shape)))
    /\ [][resolver.has_err => resolver'.has_err]_vars
    /\ [][Len(resolver.errors) <= Len(resolver'.errors)]_vars
    /\ [][(executed' # executed \/ interpreter' # interpreter) =>
             (resolved = Len(statements) /\ ~resolver.has_err)]_vars

C10_Witness ==
    /\ IsFixed("three_errors")
    /\ phase = "exit65"
    /\ Len(resolver.errors) = 3
    /\ NothingExecuted

(***************************************************************************)
(* C11: every eval_block_stmt (interpret_block, and the body of every      *)
(* call) returns with the frame that was current when it was entered,      *)
(* whether it completed, failed or carried a Return; a class declaration   *)
(* with a superclass leaves no `super` frame behind; so between top-level  *)
(* statements the current frame is the global frame.                       *)
(***************************************************************************)
C11_NoLeak ==
    /\ interpreter.environment = interpreter.globals
    /\ \A k \in 1..Len(interpreter.blocks) :
          interpreter.blocks[k].left = interpreter.blocks[k].entered
    /\ (input.family = "nest" /\ Redeclaring(input.shape) = {}) => phase # "exit70"
    /\ IsFixed("super") => phase # "exit70"
    /\ (IsFixed("error_inside") /\ phase = "exit70") =>
          /\ Len(interpreter.blocks) = 3
          /\ \A k \in 1..3 : interpreter.blocks[k].outcome = "UndefinedProperty"
    /\ (IsFixed("unwind") /\ phase = "done") =>
          {interpreter.blocks[k].outcome : k \in 1..Len(interpreter.blocks)} = {"Return"}

C11_Witness ==
    /\ IsFixed("error_inside")
    /\ phase = "exit70"
    /\ Len(interpreter.blocks) = 3
    /\ interpreter.blocks[1].entered # interpreter.blocks[1].frame
    /\ interpreter.environment = interpreter.globals
    /\ Len(interpreter.envs) > 4

\* the static errors a return program is to be given
ExpectedReturnErrors(place, form) ==
    CASE place \in {"top", "top_block", "top_if", "after_fun", "after_class"} ->
           << [lexeme |-> "return", err |-> "Can't return from top-level code."] >>
      [] place \in {"init", "init_after_fun"} /\ form = "value" ->
           << [lexeme |-> "return", err |-> "Can't return a value from an initializer."] >>
      [] OTHER -> <<>>

\* what an accepted return program prints
ReturnOutput(place, form) ==
    CASE place = "init" -> <<"set">>
      [] place = "init_after_fun" -> <<"g">>
      [] OTHER -> IF form = "value" THEN <<"v">> ELSE <<"nil">>

(***************************************************************************)
(* C12: in a program without static error no run ends with the Return     *)
(* signal; a return inside blocks, ifs and loops ends the call of the      *)
(* nearest enclosing function or method, whose result is the returned      *)
(* value (nil for a bare return), and the caller goes on.                  *)
(***************************************************************************)
C12_ReturnCaught ==
    /\ last.error.kind # "Return"
    /\ (input.family = "return" /\ ExpectedReturnErrors(input.place, input.form) = <<>>) =>
          /\ phase \notin {"exit65", "exit70"}
          /\ IsPrefix(interpreter.out, ReturnOutput(input.place, input.form))
          /\ phase = "done" => interpreter.out = ReturnOutput(input.place, input.form)
    /\ IsFixed("unwind") =>
          /\ phase \notin {"exit65", "exit70"}
          /\ IsPrefix(interpreter.out, <<"r", "outer:inner", "A instance">>)
          /\ phase = "done" => interpreter.out = <<"r", "outer:inner", "A instance">>

C12_Witness ==
    /\ IsFixed("unwind")
    /\ phase = "done"
    /\ interpreter.out = <<"r", "outer:inner", "A instance">>
    /\ \E k \in 1..Len(interpreter.blocks) : interpreter.blocks[k].outcome = "Return"

\* the frames other than `frame` are the same in envs and in before
OnlyFrameChanged(before, envs, frame) ==
    /\ Len(envs) = Len(before)
    /\ \A j \in 1..Len(before) : j # frame => envs[j] = before[j]
    /\ envs[frame].enclosing = before[frame].enclosing

(***************************************************************************)
(* C13: the global frame has no enclosing frame; a reference with an empty *)
(* slot reads and writes the global frame by name, also when a frame       *)
(* between the current frame and the global frame binds the name: the      *)
(* closures declared in a block before its `var a` print and assign the    *)
(* global `a` on every call, before and after the block binds `a`.         *)
(***************************************************************************)
C13_Global ==
    /\ interpreter.envs[interpreter.globals].enclosing = 0
    /\ \A k \in 1..Len(interpreter.assigns) :
          LET assign == interpreter.assigns[k]
          IN  (~assign.height.some /\ assign.ok) =>
                 /\ OnlyFrameChanged(assign.before, assign.after, interpreter.globals)
                 /\ assign.name \in DOMAIN assign.before[interpreter.globals].values
                 /\ assign.after[interpreter.globals].values =
                       Put(assign.before[interpreter.globals].values, assign.name, assign.value)
    /\ IsFixed("late_local") =>
          /\ phase \notin {"exit65", "exit70"}
          /\ Resolved => {1, 2, 8} \cap DOMAIN resolver.height = {}
          /\ IsPrefix(interpreter.out, <<"global", "global", "block", "changed", "changed">>)
          /\ phase = "done" =>
                /\ interpreter.out = <<"global", "global", "block", "changed", "changed">>
                /\ Globals["a"] = String("changed")
                /\ interpreter.envs[2].values["a"] = String("block")
    /\ (input.family = "nest" /\ Declaring(input.shape) = {} /\ phase = "done") =>
          /\ interpreter.out = <<"0", "9">>
          /\ Globals["a"] = Num(9)

C13_Witness ==
    /\ IsFixed("late_local")
    /\ phase = "done"
    /\ interpreter.out = <<"global", "global", "block", "changed", "changed">>
    /\ Len(interpreter.assigns) = 1
    /\ ~interpreter.assigns[1].height.some
    /\ "a" \in DOMAIN interpreter.envs[interpreter.envs[interpreter.assigns[1].environment].enclosing].values

Ended == phase \in {"exit65", "exit70", "done"}

(***************************************************************************)
(* C14: the statements are executed one after the other in program order;  *)
(* the first runtime error ends the run with status 70, after which        *)
(* nothing more is executed, and what the earlier statements printed and   *)
(* defined remains; static errors end the run with status 65 before any    *)
(* statement is executed, and a run without error ends with success.       *)
(***************************************************************************)
C14_RunOrder ==
    /\ [](/\ phase = "exit70" => (last.error.kind # "None" /\ executed >= 1 /\ ~resolver.has_err)
          /\ phase = "exit65" => (resolver.has_err /\ executed = 0 /\ last.error.kind = "None")
          /\ phase = "done" =>
                (last.error.kind = "None" /\ executed = Len(statements) /\ ~resolver.has_err)
          /\ phase = "interpret" => last.error.kind = "None"
          /\ IsFixed("error_inside") =>
                /\ IsPrefix(interpreter.out, <<"before", "in">>)
                /\ phase # "done"
                /\ phase = "exit70" =>
                      /\ executed = 5
                      /\ last.error.kind = "UndefinedProperty"
                      /\ interpreter.out = <<"before", "in">>
                      /\ Globals["x"] = Num(1))
    /\ [][executed' # executed => (executed' = executed + 1 /\ phase = "interpret")]_vars
    /\ [][~Ended]_vars
    /\ [][IsPrefix(interpreter.out, interpreter'.out)]_vars

C14_Witness ==
    /\ IsFixed("error_inside")
    /\ phase = "exit70"
    /\ executed = 5
    /\ Len(statements) = 7
    /\ interpreter.out = <<"before", "in">>

(***************************************************************************)
(* C15: a return that is in no function or method body is a static error,  *)
(* at top level, in a top-level block, if or loop, and after a function or *)
(* class declaration; a return with a value directly in init is one, also  *)
(* after a function nested in init; a bare return in init, a return with a *)
(* value in a function nested in init, and returns in functions and        *)
(* methods are none.                                                       *)
(***************************************************************************)
C15_ReturnErrors ==
    /\ (input.family = "return" /\ Resolved) =>
          /\ resolver.errors = ExpectedReturnErrors(input.place, input.form)
          /\ resolver.has_err = (ExpectedReturnErrors(input.place, input.form) # <<>>)
          /\ resolver.current_scope = "Normal"
    /\ (IsFixed("unwind") /\ Resolved) => ~resolver.has_err
    /\ (IsFixed("init") /\ Resolved) => ~resolver.has_err
    /\ (IsFixed("three_errors") /\ resolved >= 1) =>
          resolver.errors[1] = [lexeme |-> "return", err |-> "Can't return from top-level code."]

C15_Witness ==
    /\ input.family = "return"
    /\ input.place = "init_after_fun"
    /\ input.form = "value"
    /\ phase = "exit65"
    /\ resolver.errors =
          << [lexeme |-> "return", err |-> "Can't return a value from an initializer."] >>

\* the static errors a class-context program is to be given
ExpectedClassErrors(place, use) ==
    CASE place \in {"top", "fun", "after_class", "after_subclass"} ->
           << [lexeme |-> use,
               err |-> IF use = "this" THEN "Can't use 'this' outside of a class."
                       ELSE "Can't use 'super' outside of a class."] >>
      [] place \in {"class", "class_in_sub"} /\ use = "super" ->
           << [lexeme |-> "super", err |-> "Can't use 'super' in a class with no superclass."] >>
      [] OTHER -> <<>>

\* what an accepted class-context program prints
ClassOutput(place, use) ==
    CASE use = "super" -> <<"<fn m>">>
      [] place = "class" -> <<"A instance">>
      [] place = "class_in_sub" -> <<"N instance">>
      [] OTHER -> <<"B instance">>

(***************************************************************************)
(* C16: `this` and `super` outside every class body are static errors, at  *)
(* top level, in a function, and again after a class or subclass           *)
(* declaration has ended; `super` in a class without superclass is one,    *)
(* also when that class is declared in a method of a subclass; a class     *)
(* that names itself as superclass is one; the uses inside a class, and    *)
(* of `super` inside a subclass (also after a nested class), are none.     *)
(***************************************************************************)
C16_ClassErrors ==
    /\ (input.family = "class" /\ Resolved) =>
          /\ resolver.errors = ExpectedClassErrors(input.place, input.use)
          /\ resolver.has_err = (ExpectedClassErrors(input.place, input.use) # <<>>)
          /\ resolver.current_class = "None"
    /\ (input.family = "class" /\ phase = "done") =>
          interpreter.out = ClassOutput(input.place, input.use)
    /\ (input.family = "class" /\ ExpectedClassErrors(input.place, input.use) = <<>>) =>
          phase \notin {"exit65", "exit70"}
    /\ (IsFixed("self_inherit") /\ Resolved) =>
          /\ resolver.errors = << [lexeme |-> "A", err |-> "A class can't inherit from itself."] >>
          /\ phase \in {"resolve", "exit65"}
    /\ (IsFixed("super") /\ Resolved) => ~resolver.has_err

C16_Witness ==
    /\ input.family = "class"
    /\ input.place = "class_in_sub"
    /\ input.use = "super"
    /\ phase = "exit65"
    /\ Len(resolver.errors) = 1

(***************************************************************************)
(* C17: a var declaration in a local scope whose initializer reads the     *)
(* declared name is a static error, also when an enclosing scope declares  *)
(* the name; reads of the name after the declaration, in the same scope    *)
(* and in nested ones, are none.                                           *)
(***************************************************************************)
C17_OwnInitializer ==
    /\ (IsFixed("self_init") /\ resolved >= 1) =>
          /\ resolver.errors =
                << [lexeme |-> "a", err |-> "Can't read local variable in its own initializer."] >>
          /\ resolver.has_err
          /\ phase \in {"resolve", "exit65"}
    /\ (IsFixed("self_init_shadow") /\ Resolved) =>
          /\ resolver.errors =
                << [lexeme |-> "a", err |-> "Can't read local variable in its own initializer."] >>
          /\ phase = "exit65"
    /\ IsFixed("init_then_read") =>
          /\ ~resolver.has_err
          /\ phase \notin {"exit65", "exit70"}
          /\ phase = "done" => interpreter.out = <<"2", "1">>
    /\ (input.family = "nest" /\ Resolved) =>
          \A k \in 1..Len(resolver.errors) :
             resolver.errors[k].err # "Can't read local variable in its own initializer."

C17_Witness ==
    /\ IsFixed("self_init_shadow")
    /\ phase = "exit65"
    /\ Len(resolver.errors) = 1
    /\ executed = 0

(***************************************************************************)
(* C18: an assignment with an empty slot to a name the global frame does   *)
(* not bind fails with UndefinedVariable and binds nothing: every frame is *)
(* after it as it was before it, and the run ends there; this also when a  *)
(* frame between the current and the global frame binds the name.          *)
(***************************************************************************)
C18_AssignUndefined ==
    /\ \A k \in 1..Len(interpreter.assigns) :
          LET assign == interpreter.assigns[k]
              bound == assign.name \in DOMAIN assign.before[interpreter.globals].values
          IN  /\ (~assign.height.some /\ ~bound) => ~assign.ok
              /\ ~assign.ok =>
                    /\ ~assign.height.some /\ ~bound
                    /\ assign.after = assign.before
                    /\ interpreter.envs = assign.before
                    /\ k = Len(interpreter.assigns)
                    /\ phase = "exit70"
                    /\ last.error = RuntimeError("UndefinedVariable", assign.name)
    /\ IsFixed("assign_undefined") =>
          /\ phase # "done"
          /\ phase = "exit70" =>
                /\ executed = 2
                /\ last.error = RuntimeError("UndefinedVariable", "u")
                /\ DOMAIN Globals = {"clock", "g"}
                /\ interpreter.envs[2].values = Put(EmptyMap, "l", Num(2))
    /\ IsFixed("assign_late") =>
          /\ phase # "done"
          /\ interpreter.out = <<>>
          /\ phase = "exit70" =>
                /\ last.error = RuntimeError("UndefinedVariable", "a")
                /\ DOMAIN Globals = {"clock"}
                /\ interpreter.envs[2].values["a"] = Num(0)

C18_Witness ==
    /\ IsFixed("assign_late")
    /\ phase = "exit70"
    /\ Len(interpreter.assigns) = 1
    /\ ~interpreter.assigns[1].ok
    /\ "a" \in DOMAIN interpreter.envs[2].values

\* the frame d hops out from frame env, or 0
RECURSIVE FrameAt(_, _, _)
FrameAt(envs, env, d) ==
    IF d = 0 \/ env = 0 THEN env ELSE FrameAt(envs, envs[env].enclosing, d - 1)

(***************************************************************************)
(* C19: an assignment whose slot holds d succeeds and sets the name to the *)
(* value in the frame d hops out from the current frame, and changes no    *)
(* other frame, whether or not nearer or farther frames bind the name; the *)
(* value of the assignment is the assigned value (print a = 3 prints 3,    *)
(* and the outer a stays 1).                                               *)
(***************************************************************************)
C19_AssignAt ==
    /\ \A k \in 1..Len(interpreter.assigns) :
          LET assign == interpreter.assigns[k]
              frame == FrameAt(assign.before, assign.environment, assign.height.value)
          IN  assign.height.some =>
                 /\ assign.ok
                 /\ frame # 0
                 /\ OnlyFrameChanged(assign.before, assign.after, frame)
                 /\ assign.after[frame].values =
                       Put(assign.before[frame].values, assign.name, assign.value)
    /\ IsFixed("assign_shadow") =>
          /\ phase \notin {"exit65", "exit70"}
          /\ IsPrefix(interpreter.out, <<"3", "3", "1">>)
          /\ "a" \in DOMAIN Globals => Globals["a"] = Num(1)
          /\ phase = "done" => interpreter.out = <<"3", "3", "1">>
    /\ IsFixed("assign_far") =>
          /\ phase \notin {"exit65", "exit70"}
          /\ phase = "done" => interpreter.out = <<"2", "5">>
    /\ (input.family = "nest" /\ Declaring(input.shape) # {} /\ phase = "done") =>
          /\ interpreter.out = <<NatToString(SetMax(Declaring(input.shape))), "9">>
          /\ Globals["a"] = Num(0)

C19_Witness ==
    /\ IsFixed("assign_far")
    /\ phase = "done"
    /\ interpreter.out = <<"2", "5">>
    /\ Len(interpreter.assigns) = 1
    /\ interpreter.assigns[1].height = Some(2)

\* the fields the instance of a property program is given
GetFields ==
    Put(Put(Put(EmptyMap, "tag", String("t")), "f", String("field")), "fm", String("shadow"))

\* value is method `name` of the superclass of the class of instance 1, bound to
\* instance 1
IsBoundMethod(value, name) ==
    /\ value.t = "Function"
    /\ LET function == interpreter.functions[value.r]
           class == interpreter.classes[interpreter.instances[1].class]
           method == interpreter.functions[interpreter.classes[class.superclass].methods[name]]
       IN  /\ function.name = name
           /\ function.body = method.body
           /\ interpreter.envs[function.closure].values = Put(EmptyMap, "this", InstanceV(1))
           /\ interpreter.envs[function.closure].enclosing = method.closure

\* the statement `var r = x.property;` of a property program
GetOutcome(x, property) ==
    CASE KindOf(x) # "Instance" ->
           /\ phase = "exit70"
           /\ last.error = RuntimeError("NotAnInstance", property)
           /\ "r" \notin DOMAIN Globals
      [] property = "none" ->
           /\ phase = "exit70"
           /\ last.error = RuntimeError("UndefinedProperty", "none")
           /\ "r" \notin DOMAIN Globals
      [] property = "f" -> Succeeded /\ Globals["r"] = String("field")
      [] property = "fm" -> Succeeded /\ Globals["r"] = String("shadow")
      [] property = "m" -> Succeeded /\ IsBoundMethod(Globals["r"], "m")

(***************************************************************************)
(* C20: reading a property of a value that is not an Instance fails with   *)
(* NotAnInstance; of an Instance it gives the field of that name, also     *)
(* when the class has a method of that name, else the method found in the  *)
(* class or its superclass, bound to the instance, else fails with         *)
(* UndefinedProperty; it leaves the fields of the instance as they were.   *)
(***************************************************************************)
C20_Get ==
    input.family = "get" =>
       /\ executed <= 7 => Succeeded
       /\ executed >= 8 => GetOutcome(input.operand, input.property)
       /\ executed >= 7 =>
             interpreter.instances =
                << [class |-> interpreter.instances[1].class, fields |-> GetFields] >>
       /\ phase = "done" =>
             interpreter.out =
                << CASE input.property = "f" -> "field"
                     [] input.property = "fm" -> "shadow"
                     [] input.property = "m" -> "<fn m>",
                   "t" >>

C20_Witness ==
    /\ input.family = "get"
    /\ input.operand = "i"
    /\ input.property = "fm"
    /\ phase = "done"
    /\ Globals["r"] = String("shadow")
    /\ "fm" \in DOMAIN interpreter.classes[interpreter.instances[1].class].methods

\* the frame that is the closure of a function value
ClosureOf(value) == interpreter.envs[interpreter.functions[value.r].closure]

\* value is the method `name` of class 1 bound to the instance: a function with
\* the method's body whose closure is a frame of its own that defines `this`
\* only and encloses the closure of the method
BoundTo(value, name, instance) ==
    /\ value.t = "Function"
    /\ LET method == interpreter.functions[interpreter.classes[1].methods[name]]
       IN  /\ interpreter.functions[value.r].name = name
           /\ interpreter.functions[value.r].body = method.body
           /\ interpreter.functions[value.r].closure # method.closure
           /\ ClosureOf(value).values = Put(EmptyMap, "this", InstanceV(instance))
           /\ ClosureOf(value).enclosing = method.closure

(***************************************************************************)
(* C21: a method read from an instance stays bound to that instance when   *)
(* it is kept in a variable or in a field of another instance and called   *)
(* later.  Each read builds a new frame that defines `this` over the       *)
(* closure of the method; the method table of the class and that closure   *)
(* stay as the class declaration left them.                                *)
(***************************************************************************)
C21_Bound ==
    IsFixed("bound") =>
       /\ executed >= 1 =>
             /\ interpreter.classes[1].methods = Put(Put(EmptyMap, "init", 1), "who", 2)
             /\ interpreter.functions[2].closure = interpreter.globals
             /\ "this" \notin DOMAIN Globals
       /\ executed >= 6 =>
             LET m == Globals["m"]
                 borrowed == interpreter.instances[2].fields["borrowed"]
                 mb == Globals["mb"]
             IN  /\ BoundTo(m, "who", 1)
                 /\ BoundTo(borrowed, "who", 1)
                 /\ BoundTo(mb, "who", 2)
                 /\ Cardinality({interpreter.functions[v.r].closure : v \in {m, borrowed, mb}}) = 3
       /\ phase = "done" => interpreter.out = <<"a", "a", "b", "a">>
       /\ phase # "exit70"

C21_Witness ==
    /\ IsFixed("bound")
    /\ phase = "done"
    /\ interpreter.out = <<"a", "a", "b", "a">>
    /\ BoundTo(interpreter.instances[2].fields["borrowed"], "who", 1)

\* the name of the nearest of the classes l, l-1, .. 1 that defines name
NearestName(defs, name, l) ==
    IF Nearest(defs, name, l) = 0 THEN "none" ELSE ChainNames[Nearest(defs, name, l)]

\* what a chain program has printed when it ends
ChainOutput(defs) ==
    << NearestName(defs, "init", 3), NearestName(defs, "init", 2) >>
    \o (IF Nearest(defs, "m", 3) # 0 THEN << NearestName(defs, "m", 3) >> ELSE <<>>)
    \o (IF Nearest(defs, "m", 2) # 0 THEN << NearestName(defs, "m", 2) >> ELSE <<>>)

(***************************************************************************)
(* C22: method lookup on a class gives the method of the nearest class of  *)
(* its chain that defines the name, the class itself first, and nothing    *)
(* when none does.  A definition in a subclass overrides those of its      *)
(* ancestors; a class without init is constructed by the init of its       *)
(* nearest ancestor that has one and takes as many arguments.              *)
(***************************************************************************)
C22_Chain ==
    input.family = "chain" =>
       LET defs == input.defs
       IN  /\ executed <= 7 => Succeeded
           /\ executed >= 3 =>
                 \A l \in 1..3 :
                    /\ DOMAIN interpreter.classes[l].methods = defs[l]
                    /\ interpreter.classes[l].superclass = l - 1
                    /\ \A name \in {"m", "init"} :
                          LET k == Nearest(defs, name, l)
                          IN  Class_method(interpreter, l, name) =
                                 IF k = 0 THEN 0 ELSE interpreter.classes[k].methods[name]
                    /\ Class_arity(interpreter, l) = Nearest(defs, "init", l)
           /\ executed >= 6 =>
                 /\ interpreter.instances[1].class = 3
                 /\ interpreter.instances[2].class = 2
                 /\ \A i \in 1..2 :
                       interpreter.instances[i].fields =
                          IF Nearest(defs, "init", 4 - i) = 0 THEN EmptyMap
                          ELSE Put(EmptyMap, "by", String(NearestName(defs, "init", 4 - i)))
           /\ (executed = 8 /\ Nearest(defs, "m", 3) = 0) =>
                 phase = "exit70" /\ last.error = RuntimeError("UndefinedProperty", "m")
           /\ (executed = 9 /\ Nearest(defs, "m", 2) = 0) =>
                 phase = "exit70" /\ last.error = RuntimeError("UndefinedProperty", "m")
           /\ Nearest(defs, "m", 3) = 0 => executed <= 8
           /\ Nearest(defs, "m", 2) = 0 => phase # "done"
           /\ Ended => interpreter.out = ChainOutput(defs)

C22_Witness ==
    /\ input.family = "chain"
    /\ input.defs = << {"m", "init"}, {"m"}, {} >>
    /\ phase = "done"
    /\ interpreter.out = << "A", "A", "B", "B" >>

\* a logical program stops at its left operand
ShortCircuits(x, operator) ==
    IF operator = "LogicalOr" THEN ~Falsy(x) ELSE Falsy(x)

(***************************************************************************)
(* C23: `or` and `and` evaluate the left operand once.  `or` with a truthy *)
(* left value and `and` with a falsy one give that value itself and do not *)
(* evaluate the right operand; otherwise the result is the value of the    *)
(* right operand.  The result is the operand's value, not a boolean made   *)
(* from it.                                                                *)
(***************************************************************************)
C23_ShortCircuit ==
    input.family = "logical" =>
       /\ Succeeded
       /\ executed >= 8 =>
             /\ Globals["ls"] = Num(1)
             /\ IF ShortCircuits(input.left, input.operator)
                THEN /\ IsValueOf(Globals["r"], input.left)
                     /\ Globals["rs"] = Num(0)
                     /\ interpreter.out = <<>>
                ELSE /\ IsValueOf(Globals["r"], input.right)
                     /\ Globals["rs"] = Num(1)
                     /\ interpreter.out = << "right" >>
       /\ executed < 8 => interpreter.out = <<>>

C23_Witness ==
    /\ input.family = "logical"
    /\ input.left = "zero"
    /\ input.operator = "LogicalOr"
    /\ input.right = "sa"
    /\ phase = "done"
    /\ Globals["r"] = Num(0)
    /\ Globals["ls"] = Num(1)
    /\ Globals["rs"] = Num(0)

\* the arity of the callee of a call program, -1 for a value that cannot be called
ArityOf(x) ==
    CASE x \in {"f", "clock", "K"} -> 0
      [] x \in {"g", "K2"} -> 2
      [] OTHER -> -1

\* the name of the function that runs when the callee of a call program is called
BodyOf(x) ==
    CASE x \in {"f", "g"} -> << x >>
      [] x = "K2" -> << "init" >>
      [] OTHER -> <<>>

\* the names of the functions called so far, in the order of the calls
Called == [j \in DOMAIN interpreter.calls |->
              interpreter.functions[interpreter.calls[j].function].name]

(***************************************************************************)
(* C24: a call evaluates the callee, then fails with NotValidCallable when *)
(* the value is not a function, a native function or a class, then fails   *)
(* with InvalidArgumentCount when the number of arguments is not the       *)
(* arity; only then it evaluates the arguments from left to right in the   *)
(* frame of the caller, all of them before the body of the callee starts.  *)
(* When it fails in one of the two ways no argument has been evaluated.    *)
(***************************************************************************)
C24_CallOrder ==
    input.family = "call" =>
       LET x == input.callee
           n == input.args
       IN  /\ executed <= 7 => Succeeded /\ interpreter.calls = <<>>
           /\ executed >= 8 =>
                 /\ Head(Called) = "callee"
                 /\ interpreter.environment = interpreter.globals
                 /\ CASE ArityOf(x) = -1 ->
                           /\ phase = "exit70"
                           /\ last.error = RuntimeError("NotValidCallable", ")")
                           /\ Called = << "callee" >>
                      [] ArityOf(x) # -1 /\ ArityOf(x) # n ->
                           /\ phase = "exit70"
                           /\ last.error = [kind |-> "InvalidArgumentCount", lexeme |-> ")",
                                            expected |-> ArityOf(x), actual |-> n]
                           /\ Called = << "callee" >>
                      [] OTHER ->
                           /\ Succeeded
                           /\ Called = << "callee" >> \o [j \in 1..n |-> "note"] \o BodyOf(x)
                           /\ \A j \in 1..n :
                                 /\ interpreter.calls[j + 1].args = << String(Digit(j)) >>
                                 /\ interpreter.calls[j + 1].caller = interpreter.calls[1].caller
                           /\ interpreter.envs[interpreter.calls[1].caller].values =
                                 Put(EmptyMap, "v", String("1"))
                           /\ interpreter.out = IF x = "g" THEN << "1", "2" >> ELSE <<>>

C24_Witness ==
    /\ input.family = "call"
    /\ input.callee = "g"
    /\ input.args = 2
    /\ phase = "done"
    /\ Called = << "callee", "note", "note", "g" >>
    /\ interpreter.out = << "1", "2" >>

\* the run is at the end of one of the programs whose superclass is a string
BadSuper(name) ==
    /\ IsFixed(name)
    /\ phase = "exit70"
    /\ last.error = RuntimeError("SuperclassMustBeAClass", "S")

(***************************************************************************)
(* C25 as claimed: a class declaration defines the name of the class as    *)
(* Nil in the current frame before it evaluates the superclass, so that    *)
(* the name is bound to Nil when SuperclassMustBeAClass is raised.         *)
(***************************************************************************)
C25_PredefinedFirst ==
    BadSuper("bad_super") => "D" \in DOMAIN Globals /\ Globals["D"] = Nil

(***************************************************************************)
(* C25 as amended: a class declaration evaluates and checks the superclass *)
(* before it defines the name of the class as Nil in the current frame:    *)
(* when SuperclassMustBeAClass is raised the frame is as it was before the *)
(* declaration (the name unbound, or bound to what it was bound to) and no *)
(* class and no frame has been made.                                       *)
(***************************************************************************)
C25_SuperclassFirst ==
    /\ \A name \in {"bad_super", "bad_super_redeclared", "bad_super_block"} :
          IsFixed(name) =>
             /\ phase \in {"exit70", "done"} => BadSuper(name)
             /\ interpreter.classes = <<>>
             /\ interpreter.out = <<>>
    /\ BadSuper("bad_super") =>
          /\ executed = 2
          /\ interpreter.envs = << [values |-> Put(Put(EmptyMap, "clock", NativeFunctionV(1)),
                                                   "S", String("s")),
                                    enclosing |-> 0] >>
    /\ BadSuper("bad_super_redeclared") =>
          /\ executed = 3
          /\ Globals["D"] = Num(5)
          /\ Len(interpreter.envs) = 1
    /\ BadSuper("bad_super_block") =>
          /\ executed = 2
          /\ Len(interpreter.envs) = 2
          /\ interpreter.envs[2] = [values |-> Put(EmptyMap, "x", Num(1)), enclosing |-> 1]
          /\ "D" \notin DOMAIN Globals

C25_Witness ==
    /\ BadSuper("bad_super_redeclared")
    /\ Globals["D"] = Num(5)
    /\ interpreter.classes = <<>>

\* the class n superclass links up from class c, 0 when the chain ends before
RECURSIVE Ancestor(_, _)
Ancestor(c, n) ==
    IF c = 0 \/ n = 0 THEN c ELSE Ancestor(interpreter.classes[c].superclass, n - 1)

\* the first declaration of a declaration program whose superclass has not been
\* declared, 0 when there is none
FirstUndeclared(decls) ==
    LET bad == {j \in 1..3 : /\ decls[j][2] # "none"
                             /\ \A i \in 1..(j - 1) : decls[i][1] # decls[j][2]}
    IN  IF bad = {} THEN 0 ELSE CHOOSE j \in bad : \A i \in bad : j <= i

(***************************************************************************)
(* C26: after any sequence of class declarations, also one that declares a *)
(* name again with a subclass of the old class as superclass, the          *)
(* superclass chain of every class is finite and has no cycle, so a lookup *)
(* through the whole chain ends.                                           *)
(***************************************************************************)
C26_Acyclic ==
    /\ \A c \in DOMAIN interpreter.classes : Ancestor(c, Len(interpreter.classes)) = 0
    /\ IsFixed("redeclare") =>
          /\ executed >= 3 =>
                /\ [c \in 1..3 |-> interpreter.classes[c].name] = << "A", "B", "A" >>
                /\ [c \in 1..3 |-> interpreter.classes[c].superclass] = << 0, 1, 2 >>
                /\ Globals["A"] = ClassV(3)
          /\ executed <= 8 => Succeeded
          /\ Ended => /\ executed = 9
                      /\ last.error = RuntimeError("UndefinedProperty", "missing")
                      /\ interpreter.out = << "new", "old", "old" >>
    /\ input.family = "declarations" =>
          LET decls == input.decls
              bad == FirstUndeclared(decls)
          IN  /\ phase # "done"
              /\ Ended =>
                    CASE bad # 0 ->
                           /\ executed = bad
                           /\ last.error = RuntimeError("UndefinedVariable", decls[bad][2])
                      [] bad = 0 /\ \A j \in 1..3 : decls[j][1] # "A" ->
                           /\ executed = 4
                           /\ last.error = RuntimeError("UndefinedVariable", "A")
                      [] OTHER ->
                           /\ executed = 5
                           /\ Len(interpreter.classes) = 3
                           /\ last.error = RuntimeError("UndefinedProperty", "missing")

C26_Witness ==
    /\ input.family = "declarations"
    /\ input.decls = << << "A", "none" >>, << "B", "A" >>, << "A", "B" >> >>
    /\ phase = "exit70"
    /\ last.error = RuntimeError("UndefinedProperty", "missing")
    /\ interpreter.instances[1].class = 3
    /\ Ancestor(3, 2) = 1
    /\ Ancestor(3, 3) = 0

\* the frame at the distance in the slot of the k-th assignment binds its name
\* when the assignment starts
AssignsBoundName(k) ==
    LET assign == interpreter.assigns[k]
        frame == FrameAt(assign.before, assign.environment, assign.height.value)
    IN  frame # 0 /\ assign.name \in DOMAIN assign.before[frame].values

\* every variable, this and super node evaluated so far through a distance found
\* the frame and in it what the evaluator asks for
LookupsFound == \A k \in DOMAIN interpreter.lookups : interpreter.lookups[k].found

\* no run has ended in a panic or in a failed read through a distance
NoResolvedFailure ==
    /\ last.error.kind # "panic"
    /\ (last.error.kind = "UndefinedVariable" /\ interpreter.lookups # <<>>) =>
          interpreter.lookups[Len(interpreter.lookups)].found

(***************************************************************************)
(* C27 as claimed: whenever a variable, assignment, this or super node     *)
(* whose slot holds d is evaluated, the frame d hops out exists and binds  *)
(* the name.                                                               *)
(***************************************************************************)
C27_AllBound ==
    /\ LookupsFound
    /\ \A k \in DOMAIN interpreter.assigns :
          interpreter.assigns[k].height.some => AssignsBoundName(k)

(***************************************************************************)
(* C27 as amended: whenever a variable, this or super node whose slot      *)
(* holds d is evaluated, the frame d hops out exists and binds the name,   *)
(* and for super the frame d-1 hops out binds this to an instance; no read *)
(* through a distance fails and eval_super does not panic.  Whenever an    *)
(* assignment whose slot holds d is evaluated the frame d hops out exists, *)
(* and it binds the name unless the assignment stands in the initializer   *)
(* of the declaration of that name ({ var a = a = 1; }), where the         *)
(* assignment makes the binding.                                           *)
(***************************************************************************)
C27_Agree ==
    /\ LookupsFound
    /\ NoResolvedFailure
    /\ \A k \in DOMAIN interpreter.assigns :
          LET assign == interpreter.assigns[k]
          IN  assign.height.some =>
                 /\ FrameAt(assign.before, assign.environment, assign.height.value) # 0
                 /\ ~IsFixed("assign_in_initializer") => AssignsBoundName(k)
    /\ IsFixed("assign_in_initializer") =>
          /\ phase \notin {"exit65", "exit70"}
          /\ executed = 1 =>
                /\ Len(interpreter.assigns) = 1
                /\ interpreter.assigns[1].height = Some(0)
                /\ interpreter.assigns[1].before[2].values = EmptyMap
                /\ interpreter.assigns[1].after[2].values = Put(EmptyMap, "a", Num(1))
                /\ interpreter.out = << "1" >>

C27_Witness ==
    /\ IsFixed("super")
    /\ phase = "done"
    /\ \E k \in DOMAIN interpreter.lookups :
          /\ interpreter.lookups[k].kind = "Super"
          /\ interpreter.lookups[k].height = 2
          /\ interpreter.lookups[k].found
    /\ \E k \in DOMAIN interpreter.lookups :
          interpreter.lookups[k].kind = "This" /\ interpreter.lookups[k].found

\* the k-th mutable borrow met no borrow of the same RefCell, and the only borrows
\* held when it was taken are those of the nearer frames of the same assign or
\* assign_at, which are other RefCells
BorrowIsFree(k) ==
    LET borrow == interpreter.borrowed[k]
    IN  /\ borrow.cell \notin borrow.held
        /\ borrow.held # {} =>
              /\ borrow.cell[1] = "frame"
              /\ k > 1
              /\ interpreter.borrowed[k - 1].cell[1] = "frame"
              /\ borrow.held = interpreter.borrowed[k - 1].held
                                  \cup {interpreter.borrowed[k - 1].cell}

(***************************************************************************)
(* C28: no mutable borrow of a frame or of the fields of an instance is    *)
(* held while an expression or statement is evaluated: each is taken for   *)
(* one define, assign, assign_at or set, after the value to store has been *)
(* computed.  No run meets a conflicting borrow, also when a method sets a *)
(* field of the instance whose setter called it, when recursive calls      *)
(* assign a variable of their common closure frame, and when the value of  *)
(* a setter reads the instance it sets.                                    *)
(***************************************************************************)
C28_Borrows ==
    /\ interpreter.borrows = {}
    /\ \A k \in DOMAIN interpreter.borrowed : BorrowIsFree(k)
    /\ last.error.kind # "panic"
    /\ Len(interpreter.borrowed) >= Len(interpreter.sets) + Len(interpreter.assigns)
    /\ IsFixed("reentrant") =>
          /\ phase \notin {"exit65", "exit70"}
          /\ IsPrefix(interpreter.out, << "3", "8", "1" >>)
          /\ phase = "done" =>
                /\ interpreter.out = << "3", "8", "1" >>
                /\ Len(interpreter.sets) = 7
                /\ Len(interpreter.assigns) = 2

C28_Witness ==
    /\ IsFixed("reentrant")
    /\ phase = "done"
    /\ interpreter.instances[1].fields["n"] = Num(8)
    /\ \E k \in DOMAIN interpreter.borrowed :
          /\ interpreter.borrowed[k].cell = << "instance", 1 >>
          /\ interpreter.borrowed[k].held = {}
    /\ \E k \in DOMAIN interpreter.borrowed :
          /\ interpreter.borrowed[k].cell[1] = "frame"
          /\ interpreter.borrowed[k].held # {}

\* the annotate calls that met the name in no scope of the stack
Unscoped(n) == \A i \in 1..Len(n.stack) : n.name \notin n.stack[i]

(***************************************************************************)
(* C29: with an empty scope stack (top-level code) declare and define      *)
(* change nothing in the resolver and annotate fills no slot: a top-level  *)
(* name declared twice, and a top-level variable read in its own           *)
(* initializer, are no static errors, and every reference to a name        *)
(* declared at top level only has an empty slot, in a block, a function    *)
(* body or a method as well as at top level.                               *)
(***************************************************************************)
C29_TopLevel ==
    /\ resolver.scopes = <<>>
    /\ \A k \in 1..Len(resolver.notes) :
          Unscoped(resolver.notes[k]) => resolver.notes[k].id \notin DOMAIN resolver.height
    /\ IsFixed("top_level") =>
          /\ ~resolver.has_err
          /\ resolver.errors = <<>>
          /\ resolver.height = EmptyMap
          /\ resolved <= 2 => resolver.notes = <<>>
          /\ resolved >= 3 => Len(resolver.notes) = resolved - 1
          /\ \A k \in 1..Len(resolver.notes) :
                /\ resolver.notes[k].id = k
                /\ Unscoped(resolver.notes[k])
                /\ \A i \in 1..Len(resolver.notes[k].stack) :
                      resolver.notes[k].stack[i] \cap {"a", "b", "f", "K"} = {}
          /\ phase \notin {"exit65", "done"}
          /\ phase = "exit70" =>
                /\ executed = 7
                /\ interpreter.out = <<"2", "3">>
                /\ last.error.kind = "UndefinedVariable"
                /\ last.error.lexeme = "b"

C29_Witness ==
    /\ IsFixed("top_level")
    /\ phase = "exit70"
    /\ Len(resolver.notes) = 6
    /\ resolver.notes[1].kind = "Variable"
    /\ Len(resolver.notes[1].stack) >= 2
    /\ resolver.notes[6].stack = <<>>
    /\ resolver.height = EmptyMap
    /\ interpreter.out = <<"2", "3">>

\* what the variables of the equality programs hold: the kind of the value and
\* the name of the class, of the instance's class or of the function
RefKind(x) ==
    CASE x \in {"a1", "a2", "a3", "b1"} -> "Instance"
      [] x \in {"A", "A2", "B"} -> "Class"
      [] x \in {"f", "f2", "g", "who", "m1", "m2"} -> "Function"

RefName(x) ==
    CASE x \in {"a1", "a2", "a3", "A", "A2"} -> "A"
      [] x \in {"b1", "B"} -> "B"
      [] x \in {"f", "f2"} -> "f"
      [] x = "g" -> "g"
      [] x \in {"who", "m1", "m2"} -> "who"

\* the values really are different objects with the names above
DistinctObjects ==
    /\ \A x \in References : Globals[x].t = RefKind(x)
    /\ \A x, y \in References : (x # y /\ RefKind(x) = RefKind(y)) => Globals[x].r # Globals[y].r
    /\ \A x \in {"a1", "a2", "a3", "b1"} :
          interpreter.classes[interpreter.instances[Globals[x].r].class].name = RefName(x)
    /\ interpreter.instances[Globals["a1"].r].class = Globals["A"].r
    /\ interpreter.instances[Globals["a2"].r].class = Globals["A"].r
    /\ interpreter.instances[Globals["a3"].r].class = Globals["A2"].r
    /\ interpreter.instances[Globals["a1"].r].fields # interpreter.instances[Globals["a2"].r].fields
    /\ \A x \in {"A", "A2", "B"} : interpreter.classes[Globals[x].r].name = RefName(x)
    /\ \A x \in {"f", "f2", "g", "who", "m1", "m2"} :
          interpreter.functions[Globals[x].r].name = RefName(x)

(***************************************************************************)
(* C30: == on instances, functions and classes compares names: two         *)
(* instances are equal exactly when their classes have one name, whatever  *)
(* their fields, whether or not they are one instance and whether or not   *)
(* their classes are one class; two functions (bound methods included) are *)
(* equal exactly when they have one name; two classes are equal exactly    *)
(* when they have one name.  != gives the opposite answer.                 *)
(***************************************************************************)
C30_ByName ==
    input.family = "equality" =>
       /\ phase \notin {"exit65", "exit70"}
       /\ executed = 17 => (interpreter.out = <<>> /\ DistinctObjects)
       /\ phase = "done" =>
             /\ DistinctObjects
             /\ interpreter.out =
                   << IF (input.operator = "Equal")
                          = (/\ RefKind(input.left) = RefKind(input.right)
                             /\ RefName(input.left) = RefName(input.right))
                      THEN "true" ELSE "false" >>

C30_Witness ==
    /\ input.family = "equality"
    /\ phase = "done"
    /\ input.left = "a1"
    /\ input.operator = "Equal"
    /\ input.right = "a3"
    /\ Globals["a1"].r # Globals["a3"].r
    /\ interpreter.instances[Globals["a1"].r].class # interpreter.instances[Globals["a3"].r].class
    /\ interpreter.out = <<"true">>

============================================================================
